---- MODULE Spec2Model ----
(***************************************************************************)
(* Custom Matrix PCF: the pivot engine (transformDatasetToPivot), the      *)
(* React control that renders its result (PivotTable, updateView) and the  *)
(* DOM matrix control (CustomMatrixPCF/index.ts).                          *)
(*                                                                         *)
(* Strings that the code concatenates, parses or compares (axis labels,    *)
(* raw text values, cell keys) are sequences of one-character strings, so  *)
(* that `${rowKey}_|_${columnKey}`, Number(label) and localeCompare are    *)
(* computed and not looked up.  Field names, data type names and           *)
(* aggregation names are only ever compared for equality and stay TLA+     *)
(* strings.  JavaScript numbers are exact fractions [n, d].                *)
(***************************************************************************)
EXTENDS Integers, Sequences, FiniteSets, TLC

VARIABLES
    columns,        \* dataset.columns of the context the host hands over
    records,        \* dataset.records in sortedRecordIds order
    params,         \* context.parameters (raw values)
    pivot,          \* outcome of transformDatasetToPivot on the current inputs
    rendered,       \* what the React root shows after updateView
    collapsedGroups,\* _collapsedGroups of the DOM control, in insertion order
    controlState,   \* what the DOM control last handed to setControlState
    matrix,         \* what processDataset returned in the last render, if called
    container       \* the children of the DOM control's container

vars == <<columns, records, params, pivot, rendered, collapsedGroups,
          controlState, matrix, container>>

----------------------------------------------------------------------------
(* Bounds of the model *)

MaxRecords == 3
MaxFewRecords == 1
MaxMatrixRecords == 3
MaxLabelRecords == 3
MaxGroupRecords == 3

----------------------------------------------------------------------------
(* JavaScript numbers as exact fractions *)

RECURSIVE Gcd(_, _)
Gcd(a, b) == IF b = 0 THEN a ELSE Gcd(b, a % b)

Abs(n) == IF n < 0 THEN -n ELSE n

\* the fraction n/d in lowest terms with a positive denominator (d # 0)
Rat(n, d) ==
    LET g == Gcd(Abs(n), Abs(d))
        s == IF d < 0 THEN -1 ELSE 1
    IN  [n |-> s * (n \div g), d |-> s * (d \div g)]

Num(n) == [n |-> n, d |-> 1]

\* NaN is the fraction with denominator 0
NaN == [n |-> 0, d |-> 0]
isNaN(a) == a.d = 0

RAdd(a, b) ==
    IF isNaN(a) \/ isNaN(b) THEN NaN ELSE Rat(a.n * b.d + b.n * a.d, a.d * b.d)
RSub(a, b) ==
    IF isNaN(a) \/ isNaN(b) THEN NaN ELSE Rat(a.n * b.d - b.n * a.d, a.d * b.d)
\* a / k for a count k (0 / 0 is NaN; no other division by zero arises)
RDiv(a, k) ==
    IF isNaN(a) \/ k = 0 THEN NaN ELSE Rat(a.n, a.d * k)
RLess(a, b) == ~isNaN(a) /\ ~isNaN(b) /\ a.n * b.d < b.n * a.d
\* the sign of a number, as a comparator's result is used
Sign(a) == IF isNaN(a) \/ a.n = 0 THEN 0 ELSE IF a.n < 0 THEN -1 ELSE 1
\* Math.min, Math.max of two numbers
MathMin(a, b) ==
    IF isNaN(a) \/ isNaN(b) THEN NaN ELSE IF RLess(b, a) THEN b ELSE a
MathMax(a, b) ==
    IF isNaN(a) \/ isNaN(b) THEN NaN ELSE IF RLess(a, b) THEN b ELSE a

----------------------------------------------------------------------------
(* Strings as sequences of characters *)

BLANK == <<"(", "B", "l", "a", "n", "k", ")">>
SEP == <<"_", "|", "_">>

Digits == <<"0", "1", "2", "3", "4", "5", "6", "7", "8", "9">>
isDigit(c) == \E i \in 1..10 : Digits[i] = c
DigitValue(c) == (CHOOSE i \in 1..10 : Digits[i] = c) - 1

\* String(n) for an integer n
RECURSIVE NatToChars(_)
NatToChars(n) ==
    IF n < 10 THEN <<Digits[n + 1]>>
    ELSE NatToChars(n \div 10) \o <<Digits[(n % 10) + 1]>>
IntToChars(n) == IF n < 0 THEN <<"-">> \o NatToChars(-n) ELSE NatToChars(n)

\* the value of a run of digits
RECURSIVE DigitsToNat(_)
DigitsToNat(cs) ==
    IF cs = <<>> THEN 0
    ELSE 10 * DigitsToNat(SubSeq(cs, 1, Len(cs) - 1)) + DigitValue(cs[Len(cs)])

RECURSIVE Pow10(_)
Pow10(k) == IF k = 0 THEN 1 ELSE 10 * Pow10(k - 1)

allDigits(cs) == \A i \in 1..Len(cs) : isDigit(cs[i])

\* Number(s) for a string s: the empty string is 0, a decimal literal (an
\* optional sign, digits, an optional point and digits) is its value, and
\* anything else is NaN.
JsNumber(cs) ==
    IF cs = <<>> THEN Num(0)
    ELSE
        LET signed == cs[1] \in {"-", "+"}
            body == IF signed THEN SubSeq(cs, 2, Len(cs)) ELSE cs
            dots == {i \in 1..Len(body) : body[i] = "."}
            int == IF dots = {} THEN body
                   ELSE SubSeq(body, 1, (CHOOSE i \in dots : TRUE) - 1)
            frac == IF dots = {} THEN <<>>
                    ELSE SubSeq(body, (CHOOSE i \in dots : TRUE) + 1, Len(body))
            ok == /\ Cardinality(dots) <= 1
                  /\ allDigits(int) /\ allDigits(frac)
                  /\ Len(int) + Len(frac) > 0
            mag == Rat(DigitsToNat(int \o frac), Pow10(Len(frac)))
        IN  IF ~ok THEN NaN
            ELSE IF signed /\ cs[1] = "-" THEN RSub(Num(0), mag) ELSE mag

\* The root collation order of the characters the labels use: punctuation,
\* then symbols, then digits, then letters.  With sensitivity 'base' a
\* letter and its capital are the same.
Lower == <<"a", "b", "c", "d", "e", "f", "g", "h", "i", "j", "k", "l", "m",
           "n", "o", "p", "q", "r", "s", "t", "u", "v", "w", "x", "y", "z">>
Upper == <<"A", "B", "C", "D", "E", "F", "G", "H", "I", "J", "K", "L", "M",
           "N", "O", "P", "Q", "R", "S", "T", "U", "V", "W", "X", "Y", "Z">>
toBase(c) == IF \E i \in 1..26 : Upper[i] = c
             THEN Lower[CHOOSE i \in 1..26 : Upper[i] = c] ELSE c
CollationOrder ==
    <<"_", "-", ".", "\"", "(", ")", "\\", "+", "|">> \o Digits \o Lower
CollationWeight(c) ==
    CHOOSE i \in 1..Len(CollationOrder) : CollationOrder[i] = toBase(c)

\* the length of the run of digits that starts the string
RECURSIVE DigitRun(_)
DigitRun(cs) ==
    IF cs # <<>> /\ isDigit(cs[1]) THEN 1 + DigitRun(Tail(cs)) ELSE 0

\* a.localeCompare(b, undefined, { numeric: true, sensitivity: 'base' }):
\* -1, 0 or 1.  Runs of digits compare by their value, other characters by
\* their collation weight without case; a proper prefix comes first.
RECURSIVE localeCompare(_, _)
localeCompare(a, b) ==
    IF a = <<>> /\ b = <<>> THEN 0
    ELSE IF a = <<>> THEN -1
    ELSE IF b = <<>> THEN 1
    ELSE IF isDigit(a[1]) /\ isDigit(b[1]) THEN
        LET ra == DigitRun(a)
            rb == DigitRun(b)
            na == DigitsToNat(SubSeq(a, 1, ra))
            nb == DigitsToNat(SubSeq(b, 1, rb))
        IN  IF na < nb THEN -1
            ELSE IF na > nb THEN 1
            ELSE localeCompare(SubSeq(a, ra + 1, Len(a)), SubSeq(b, rb + 1, Len(b)))
    ELSE IF CollationWeight(a[1]) < CollationWeight(b[1]) THEN -1
    ELSE IF CollationWeight(a[1]) > CollationWeight(b[1]) THEN 1
    ELSE localeCompare(Tail(a), Tail(b))

\* the comparator of the axis labels: its sign
smartSort(a, b) ==
    LET aNum == JsNumber(a)
        bNum == JsNumber(b)
    IN  IF ~isNaN(aNum) /\ ~isNaN(bNum) THEN Sign(RSub(aNum, bNum))
        ELSE localeCompare(a, b)

\* Array.prototype.sort with the comparator smartSort: a stable sort.  Each
\* element is inserted into the sorted prefix behind the last element that
\* does not compare greater.
RECURSIVE InsertSorted(_, _)
InsertSorted(sorted, x) ==
    IF sorted = <<>> THEN <<x>>
    ELSE IF smartSort(sorted[Len(sorted)], x) > 0
         THEN Append(InsertSorted(SubSeq(sorted, 1, Len(sorted) - 1), x),
                     sorted[Len(sorted)])
         ELSE Append(sorted, x)

RECURSIVE SortLabels(_)
SortLabels(keys) ==
    IF keys = <<>> THEN <<>>
    ELSE InsertSorted(SortLabels(SubSeq(keys, 1, Len(keys) - 1)), keys[Len(keys)])

\* Set.add: a Set keeps its members in the order they were first added
SetAdd(set, x) ==
    IF \E i \in 1..Len(set) : set[i] = x THEN set ELSE Append(set, x)

----------------------------------------------------------------------------
(* The dataset: columns, records and the values of a record's fields *)

\* raw field values: null, a string, a number, a Date (its epoch milliseconds)
Null == [t |-> "null"]
Str(cs) == [t |-> "str", s |-> cs]
NumV(n) == [t |-> "num", n |-> n]
DateV(ms) == [t |-> "date", ms |-> ms]

\* one field of a record: what getValue and getFormattedValue return for it
Field(raw, formatted) == [raw |-> raw, formatted |-> formatted]

getValue(record, fieldName) ==
    IF fieldName \in DOMAIN record THEN record[fieldName].raw ELSE Null
getFormattedValue(record, fieldName) ==
    IF fieldName \in DOMAIN record THEN record[fieldName].formatted ELSE <<>>

\* String(rawValue) of a string or an integer
JsString(raw) ==
    CASE raw.t = "str" -> raw.s
      [] raw.t = "num" -> IntToChars(raw.n)

\* dataset.columns.find(col => col.name === name): its index, 0 when absent
FindColumn(cols, name) ==
    IF \E i \in 1..Len(cols) : cols[i].name = name
    THEN CHOOSE i \in 1..Len(cols) :
             /\ cols[i].name = name
             /\ \A j \in 1..(i - 1) : cols[j].name # name
    ELSE 0

LookupTypes == {"Lookup.Simple", "Lookup.Customer", "Lookup.Owner",
                "Lookup.PartyList", "Lookup.Regarding"}
NumericTypes == {"Whole.None", "Decimal", "Currency", "FP"}
DateTypes == {"DateAndTime.DateOnly", "DateAndTime.DateAndTime"}
FormattedKeyTypes == {"OptionSet", "TwoOptions", "MultiSelectOptionSet"}

----------------------------------------------------------------------------
(* transformDatasetToPivot *)

\* a thrown Error: the kind of its message and what the message names
Threw(kind, field, aggregationType, dataType) ==
    [threw |-> TRUE,
     error |-> [kind |-> kind, field |-> field,
                aggregationType |-> aggregationType, dataType |-> dataType]]

Returned(rowKeys, columnKeys, gridData) ==
    [threw |-> FALSE, rowKeys |-> rowKeys, columnKeys |-> columnKeys,
     gridData |-> gridData]

\* a Map as a function on its keys
EmptyMap == [k \in {} |-> 0]
MapHas(m, k) == k \in DOMAIN m
MapSet(m, k, v) == [x \in (DOMAIN m) \cup {k} |-> IF x = k THEN v ELSE m[x]]

\* `${rowKey}_|_${columnKey}`
cellKeyOf(rowKey, columnKey) == rowKey \o SEP \o columnKey

\* a mutant: the string of the raw value is the key for every type
axisKey_OfRawValue(record, fieldName, dataType) ==
    IF getValue(record, fieldName) # Null
    THEN JsString(getValue(record, fieldName)) ELSE BLANK

\* the row key or column key of a record: the formatted value for option
\* sets, the string of the raw value for the others, "(Blank)" for nothing
axisKey(record, fieldName, dataType) ==
    IF dataType \in FormattedKeyTypes
    THEN IF getFormattedValue(record, fieldName) # <<>>
         THEN getFormattedValue(record, fieldName) ELSE BLANK
    ELSE IF getValue(record, fieldName) # Null
         THEN JsString(getValue(record, fieldName)) ELSE BLANK

\* new Date(string).getTime(): none of the strings of the model is a date
DateParse(cs) == NaN

\* the number accumulated for a non-null raw value
numericValue(rawValue, isDateField) ==
    IF isDateField
    THEN CASE rawValue.t = "date" -> Num(rawValue.ms)
           [] rawValue.t = "str" -> DateParse(rawValue.s)
           [] rawValue.t = "num" -> Num(rawValue.n)
    ELSE CASE rawValue.t = "date" -> Num(rawValue.ms)
           [] rawValue.t = "str" -> JsNumber(rawValue.s)
           [] rawValue.t = "num" -> Num(rawValue.n)

cellDataOf(cellDataMap, cellKey) ==
    IF MapHas(cellDataMap, cellKey) THEN cellDataMap[cellKey]
    ELSE [values |-> <<>>, count |-> 0]

\* a mutant: the keys of a record are added before its value is looked at
scanRecord_KeysOfEveryRecord(acc, record, config, rowType, columnType, isDateField) ==
    LET rowKey == axisKey(record, config.groupByRow, rowType)
        columnKey == axisKey(record, config.groupByColumn, columnType)
        rawValue == getValue(record, config.valueField)
        cellKey == cellKeyOf(rowKey, columnKey)
        cellData == cellDataOf(acc.cellDataMap, cellKey)
    IN  [rowSet |-> SetAdd(acc.rowSet, rowKey),
         columnSet |-> SetAdd(acc.columnSet, columnKey),
         cellDataMap |->
             IF rawValue = Null
             THEN IF config.aggregationType = "COUNT"
                  THEN MapSet(acc.cellDataMap, cellKey,
                              [cellData EXCEPT !.count = @ + 1])
                  ELSE acc.cellDataMap
             ELSE MapSet(acc.cellDataMap, cellKey,
                         [values |-> Append(cellData.values,
                                            numericValue(rawValue, isDateField)),
                          count |-> cellData.count + 1])]


\* the body of the forEach over sortedRecordIds, for one record
scanRecord(acc, record, config, rowType, columnType, isDateField) ==
    LET rowKey == axisKey(record, config.groupByRow, rowType)
        columnKey == axisKey(record, config.groupByColumn, columnType)
        rawValue == getValue(record, config.valueField)
        cellKey == cellKeyOf(rowKey, columnKey)
        cellData == cellDataOf(acc.cellDataMap, cellKey)
    IN  IF rawValue = Null
        THEN IF config.aggregationType = "COUNT"
             THEN [rowSet |-> SetAdd(acc.rowSet, rowKey),
                   columnSet |-> SetAdd(acc.columnSet, columnKey),
                   cellDataMap |->
                       MapSet(acc.cellDataMap, cellKey,
                              [cellData EXCEPT !.count = @ + 1])]
             ELSE acc
        ELSE [rowSet |-> SetAdd(acc.rowSet, rowKey),
              columnSet |-> SetAdd(acc.columnSet, columnKey),
              cellDataMap |->
                  MapSet(acc.cellDataMap, cellKey,
                         [values |-> Append(cellData.values,
                                            numericValue(rawValue, isDateField)),
                          count |-> cellData.count + 1])]

\* a mutant: the accumulators of an invocation start from what the
\* invocation before it returned
newAccumulators_OfEarlierCall ==
    IF "rowKeys" \in DOMAIN pivot
    THEN [rowSet |-> pivot.rowKeys, columnSet |-> pivot.columnKeys,
          cellDataMap |-> [k \in DOMAIN pivot.gridData |->
                              [values |-> <<pivot.gridData[k]>>, count |-> 1]]]
    ELSE [rowSet |-> <<>>, columnSet |-> <<>>, cellDataMap |-> EmptyMap]

\* new Set(), new Set(), new Map(): the accumulators of one invocation
newAccumulators ==
    [rowSet |-> <<>>, columnSet |-> <<>>, cellDataMap |-> EmptyMap]

RECURSIVE scanRecords(_, _, _, _, _)
scanRecords(recs, config, rowType, columnType, isDateField) ==
    IF recs = <<>> THEN newAccumulators
    ELSE scanRecord(scanRecords(SubSeq(recs, 1, Len(recs) - 1), config,
                                rowType, columnType, isDateField),
                    recs[Len(recs)], config, rowType, columnType, isDateField)

\* values.reduce((sum, val) => sum + val, 0)
RECURSIVE sumOf(_)
sumOf(values) ==
    IF values = <<>> THEN Num(0)
    ELSE RAdd(sumOf(SubSeq(values, 1, Len(values) - 1)), values[Len(values)])

\* Math.min(...values), Math.max(...values) of a non-empty array
RECURSIVE minOf(_)
minOf(values) ==
    IF Len(values) = 1 THEN values[1]
    ELSE MathMin(minOf(SubSeq(values, 1, Len(values) - 1)), values[Len(values)])
RECURSIVE maxOf(_)
maxOf(values) ==
    IF Len(values) = 1 THEN values[1]
    ELSE MathMax(maxOf(SubSeq(values, 1, Len(values) - 1)), values[Len(values)])

\* undefined, where the code leaves a number out
Undefined == [undefined |-> TRUE]

\* the switch over config.aggregationType for one cell
aggregatedValue(cellData, aggregationType) ==
    CASE aggregationType = "COUNT" -> Num(cellData.count)
      [] aggregationType = "SUM" -> sumOf(cellData.values)
      [] aggregationType = "AVG" ->
            IF Len(cellData.values) = 0 THEN Undefined
            ELSE RDiv(sumOf(cellData.values), Len(cellData.values))
      [] aggregationType = "MIN" ->
            IF Len(cellData.values) > 0 THEN minOf(cellData.values) ELSE Undefined
      [] aggregationType = "MAX" ->
            IF Len(cellData.values) > 0 THEN maxOf(cellData.values) ELSE Undefined
      [] OTHER -> Num(0)

\* a mutant: a cell is kept when its aggregated value is truthy
gridDataOf_Truthy(cellDataMap, aggregationType) ==
    [cellKey \in {k \in DOMAIN cellDataMap :
                     /\ aggregatedValue(cellDataMap[k], aggregationType) # Undefined
                     /\ aggregatedValue(cellDataMap[k], aggregationType) # Num(0)}
        |-> aggregatedValue(cellDataMap[cellKey], aggregationType)]


\* gridData: the cells whose aggregated value is not undefined
gridDataOf(cellDataMap, aggregationType) ==
    [cellKey \in {k \in DOMAIN cellDataMap :
                     aggregatedValue(cellDataMap[k], aggregationType) # Undefined}
        |-> aggregatedValue(cellDataMap[cellKey], aggregationType)]

\* the outcome of a validation step that lets the call go on
NoError == [threw |-> FALSE]

\* a mutant: a dataset without records counts as not configured
notConfigured_OrNoRecords(dataset) ==
    Len(dataset.columns) = 0 \/ Len(dataset.records) = 0

\* !dataset.columns || dataset.columns.length === 0
notConfigured(dataset) == Len(dataset.columns) = 0

\* !dataset.sortedRecordIds || dataset.sortedRecordIds.length === 0
noRecords(dataset) == Len(dataset.records) = 0

\* a mutant: every missing field is reported as the row field
fieldNotFound_AsRowField(cols, config) ==
    IF \/ FindColumn(cols, config.groupByRow) = 0
       \/ FindColumn(cols, config.groupByColumn) = 0
       \/ FindColumn(cols, config.valueField) = 0
    THEN Threw("RowFieldNotFound", config.groupByRow, "", "")
    ELSE NoError

\* the three columns.find calls and the throws that follow them
fieldNotFound(cols, config) ==
    IF FindColumn(cols, config.groupByRow) = 0
    THEN Threw("RowFieldNotFound", config.groupByRow, "", "")
    ELSE IF FindColumn(cols, config.groupByColumn) = 0
    THEN Threw("ColumnFieldNotFound", config.groupByColumn, "", "")
    ELSE IF FindColumn(cols, config.valueField) = 0
    THEN Threw("ValueFieldNotFound", config.valueField, "", "")
    ELSE NoError

\* the comparison of a data type with the five Lookup types
isLookup(dataType) == dataType \in LookupTypes

\* a mutant: only the row column is checked
fieldIsLookup_RowOnly(cols, config) ==
    IF isLookup(cols[FindColumn(cols, config.groupByRow)].dataType)
    THEN Threw("RowFieldIsLookup", config.groupByRow, "", "")
    ELSE NoError

\* the lookup checks of the row column and of the column column
fieldIsLookup(cols, config) ==
    IF isLookup(cols[FindColumn(cols, config.groupByRow)].dataType)
    THEN Threw("RowFieldIsLookup", config.groupByRow, "", "")
    ELSE IF isLookup(cols[FindColumn(cols, config.groupByColumn)].dataType)
    THEN Threw("ColumnFieldIsLookup", config.groupByColumn, "", "")
    ELSE NoError

\* a mutant: floating point numbers are left out
isNumericField_NoFP(dataType) == dataType \in NumericTypes \ {"FP"}

isNumericField(dataType) == dataType \in NumericTypes
isDateField(dataType) == dataType \in DateTypes

\* the validation of the aggregation type against the value column's type
incompatibleAggregation(cols, config) ==
    LET dataType == cols[FindColumn(cols, config.valueField)].dataType
    IN  IF config.aggregationType \in {"SUM", "AVG"} /\ ~isNumericField(dataType)
        THEN Threw("RequiresNumeric", config.valueField,
                   config.aggregationType, dataType)
        ELSE IF /\ config.aggregationType \in {"MIN", "MAX"}
                /\ ~isNumericField(dataType) /\ ~isDateField(dataType)
        THEN Threw("RequiresNumericOrDate", config.valueField,
                   config.aggregationType, dataType)
        ELSE NoError

\* the accumulation, the aggregates and the sorted keys
pivotOf(dataset, config) ==
    LET cols == dataset.columns
        scanned == scanRecords(dataset.records, config,
                               cols[FindColumn(cols, config.groupByRow)].dataType,
                               cols[FindColumn(cols, config.groupByColumn)].dataType,
                               isDateField(cols[FindColumn(cols, config.valueField)].dataType))
    IN  Returned(SortLabels(scanned.rowSet), SortLabels(scanned.columnSet),
                 gridDataOf(scanned.cellDataMap, config.aggregationType))

transformDatasetToPivot(dataset, config) ==
    IF notConfigured(dataset)
    THEN Threw("DatasetNotConfigured", "", "", "")
    ELSE IF noRecords(dataset)
    THEN Returned(<<>>, <<>>, EmptyMap)
    ELSE IF fieldNotFound(dataset.columns, config).threw
    THEN fieldNotFound(dataset.columns, config)
    ELSE IF fieldIsLookup(dataset.columns, config).threw
    THEN fieldIsLookup(dataset.columns, config)
    ELSE IF incompatibleAggregation(dataset.columns, config).threw
    THEN incompatibleAggregation(dataset.columns, config)
    ELSE pivotOf(dataset, config)

----------------------------------------------------------------------------
(* formatValue and the PivotTable component *)

\* n/d rounded to k fraction digits, halves away from zero (Intl.NumberFormat)
RoundTo(a, k) ==
    LET scaled == Abs(a.n) * Pow10(k)
        q == scaled \div a.d
        up == IF 2 * (scaled % a.d) >= a.d THEN q + 1 ELSE q
    IN  IF isNaN(a) THEN NaN
        ELSE Rat(IF a.n < 0 THEN -up ELSE up, Pow10(k))

\* the text of a formatted number: how it is written and the number written
Formatted(style, value) == [kind |-> "number", style |-> style, value |-> value]
Text(chars) == [kind |-> "text", text |-> chars]

formatValue(value, dataType, aggregationType) ==
    IF aggregationType = "COUNT" THEN Formatted("whole", RoundTo(value, 0))
    ELSE IF aggregationType = "AVG" /\ dataType = "Whole.None"
    THEN Formatted("decimal", RoundTo(value, 2))
    ELSE IF dataType = "Currency" THEN Formatted("currency", RoundTo(value, 2))
    ELSE IF dataType \in {"Decimal", "FP"} THEN Formatted("decimal", RoundTo(value, 2))
    ELSE IF dataType = "Whole.None" THEN Formatted("whole", RoundTo(value, 0))
    ELSE IF dataType \in DateTypes
    THEN Formatted("date", IF isNaN(value) THEN NaN
                           ELSE Num((value.n \div value.d) \div 86400000))
    ELSE Formatted("plain", value)

isNumber(v) == DOMAIN v = {"n", "d"}

\* gridData.get(cellKey)
gridGet(gridData, cellKey) ==
    IF MapHas(gridData, cellKey) THEN gridData[cellKey] ELSE Undefined

\* One total of the component: the loop over the cells of a column or of a
\* row, or over the row totals, and the decision that follows it.  acc is
\* <<total, count>>.
totalStep(acc, value, aggregationType) ==
    IF value = Undefined THEN acc
    ELSE CASE aggregationType \in {"COUNT", "SUM", "AVG"} ->
                <<RAdd(acc[1], value), acc[2] + 1>>
           [] aggregationType = "MIN" ->
                <<IF acc[2] = 0 THEN value ELSE MathMin(acc[1], value), acc[2] + 1>>
           [] aggregationType = "MAX" ->
                <<IF acc[2] = 0 THEN value ELSE MathMax(acc[1], value), acc[2] + 1>>
           [] OTHER -> acc

RECURSIVE totalLoop(_, _)
totalLoop(values, aggregationType) ==
    IF values = <<>> THEN <<Num(0), 0>>
    ELSE totalStep(totalLoop(SubSeq(values, 1, Len(values) - 1), aggregationType),
                   values[Len(values)], aggregationType)

totalOf(values, aggregationType) ==
    LET acc == totalLoop(values, aggregationType)
    IN  IF acc[2] > 0
        THEN IF aggregationType = "AVG" THEN RDiv(acc[1], acc[2]) ELSE acc[1]
        ELSE IF aggregationType \in {"COUNT", "SUM"} THEN Num(0)
        ELSE Undefined

columnTotal(pivotData, colKey, aggregationType) ==
    totalOf([i \in 1..Len(pivotData.rowKeys) |->
                gridGet(pivotData.gridData, cellKeyOf(pivotData.rowKeys[i], colKey))],
            aggregationType)

rowTotal(pivotData, rowKey, aggregationType) ==
    totalOf([j \in 1..Len(pivotData.columnKeys) |->
                gridGet(pivotData.gridData, cellKeyOf(rowKey, pivotData.columnKeys[j]))],
            aggregationType)

grandTotal(pivotData, aggregationType) ==
    totalOf([i \in 1..Len(pivotData.rowKeys) |->
                rowTotal(pivotData, pivotData.rowKeys[i], aggregationType)],
            aggregationType)

\* the property names of a row object
ROWKEY == <<"r", "o", "w", "K", "e", "y">>
ROWTOTAL == <<"r", "o", "w", "T", "o", "t", "a", "l">>
TOTAL == <<"T", "O", "T", "A", "L">>

\* item[name] of a row object
itemGet(item, name) == IF MapHas(item, name) THEN item[name] ELSE Undefined

\* row[colKey] = value for each column key in turn
RECURSIVE assignCells(_, _, _)
assignCells(item, colKeys, values) ==
    IF colKeys = <<>> THEN item
    ELSE MapSet(assignCells(item, SubSeq(colKeys, 1, Len(colKeys) - 1),
                            SubSeq(values, 1, Len(values) - 1)),
                colKeys[Len(colKeys)], values[Len(values)])

\* the row object of one row key: { rowKey }, then its cells, then rowTotal
dataRow(pivotData, rowKey, aggregationType) ==
    MapSet(assignCells(MapSet(EmptyMap, ROWKEY, Str(rowKey)),
                       pivotData.columnKeys,
                       [j \in 1..Len(pivotData.columnKeys) |->
                           gridGet(pivotData.gridData,
                                   cellKeyOf(rowKey, pivotData.columnKeys[j]))]),
           ROWTOTAL, rowTotal(pivotData, rowKey, aggregationType))

\* the TOTAL row: the column totals, then the grand total if there is one
totalRow(pivotData, aggregationType) ==
    LET withCells ==
            assignCells(MapSet(EmptyMap, ROWKEY, Str(TOTAL)),
                        pivotData.columnKeys,
                        [j \in 1..Len(pivotData.columnKeys) |->
                            columnTotal(pivotData, pivotData.columnKeys[j],
                                        aggregationType)])
        grand == grandTotal(pivotData, aggregationType)
    IN  IF grand # Undefined THEN MapSet(withCells, ROWTOTAL, grand) ELSE withCells

\* onRender of a value column or of the TOTAL column
renderCell(value, dataType, aggregationType) ==
    IF value # Undefined /\ isNumber(value)
    THEN formatValue(value, dataType, aggregationType)
    ELSE Text(<<"-">>)

\* the cells DetailsList shows for one item: the row header, one cell for
\* each column key and, with totals, the TOTAL cell
renderItem(item, columnKeys, dataType, aggregationType, showTotals) ==
    <<itemGet(item, ROWKEY)>>
    \o [j \in 1..Len(columnKeys) |->
            renderCell(itemGet(item, columnKeys[j]), dataType, aggregationType)]
    \o (IF showTotals
        THEN <<renderCell(itemGet(item, ROWTOTAL), dataType, aggregationType)>>
        ELSE <<>>)

Message(text) == [kind |-> "message", text |-> text]

PivotTable(pivotData, dataType, aggregationType, showTotals, showTitle, titleText) ==
    LET rows == [i \in 1..Len(pivotData.rowKeys) |->
                    dataRow(pivotData, pivotData.rowKeys[i], aggregationType)]
             \o (IF showTotals THEN <<totalRow(pivotData, aggregationType)>>
                 ELSE <<>>)
    IN  IF Len(pivotData.rowKeys) = 0 \/ Len(pivotData.columnKeys) = 0
        THEN Message("No data to display")
        ELSE [kind |-> "table",
              title |-> IF showTitle THEN titleText ELSE Undefined,
              header |-> <<Str(<<>>)>>
                         \o [j \in 1..Len(pivotData.columnKeys) |->
                                Str(pivotData.columnKeys[j])]
                         \o (IF showTotals THEN <<Str(TOTAL)>> ELSE <<>>),
              body |-> [i \in 1..Len(rows) |->
                          renderItem(rows[i], pivotData.columnKeys, dataType,
                                     aggregationType, showTotals)]]

----------------------------------------------------------------------------
(* The React control: updateView *)

aggregationTypeMap(raw) ==
    CASE raw = "0" -> "COUNT"
      [] raw = "1" -> "SUM"
      [] raw = "2" -> "AVG"
      [] raw = "3" -> "MIN"
      [] raw = "4" -> "MAX"
      [] OTHER -> "COUNT"

aggregationDisplayNames(aggregationType) ==
    CASE aggregationType = "COUNT" -> "Count"
      [] aggregationType = "SUM" -> "Sum"
      [] aggregationType = "AVG" -> "Average"
      [] aggregationType = "MIN" -> "Minimum"
      [] aggregationType = "MAX" -> "Maximum"

\* the IPivotConfig that updateView builds from the input properties
configOf(prm) ==
    [groupByRow |-> prm.groupByRow,
     groupByColumn |-> prm.groupByColumn,
     valueField |-> prm.valueField,
     aggregationType |-> aggregationTypeMap(prm.aggregationType)]

displayOf(cols, name) ==
    IF FindColumn(cols, name) # 0 /\ cols[FindColumn(cols, name)].displayName # ""
    THEN cols[FindColumn(cols, name)].displayName ELSE name

\* the parts of the generated title
titleTextOf(cols, config) ==
    [table |-> "Records",
     aggregation |-> aggregationDisplayNames(config.aggregationType),
     value |-> displayOf(cols, config.valueField),
     row |-> displayOf(cols, config.groupByRow),
     column |-> displayOf(cols, config.groupByColumn)]

\* what the root shows after updateView(context); pivotData is what the call
\* transformDatasetToPivot(dataset, config) in its try block yields
updateView(dataset, prm, pivotData) ==
    LET config == configOf(prm)
        valueColumn == FindColumn(dataset.columns, config.valueField)
    IN  IF Len(dataset.columns) = 0 THEN Message("Dataset not configured")
        ELSE IF Len(dataset.records) = 0 THEN Message("No records to display")
        ELSE IF pivotData.threw
        THEN [kind |-> "error", error |-> pivotData.error]
        ELSE IF valueColumn = 0
        THEN [kind |-> "error",
              error |-> Threw("ValueFieldNotFound", config.valueField, "", "").error]
        ELSE PivotTable(pivotData, dataset.columns[valueColumn].dataType,
                        config.aggregationType, prm.showTotals # FALSE,
                        prm.showTitle # FALSE,
                        titleTextOf(dataset.columns, config))

----------------------------------------------------------------------------
(* The DOM matrix control (CustomMatrixPCF/index.ts): its data *)

\* enum CellCalculation
Count == 0
Sum == 1
Average == 2
Max == 3
Min == 4

\* CellCalculation[calcType]
CellCalculationName(calcType) ==
    CASE calcType = Count -> "Count"
      [] calcType = Sum -> "Sum"
      [] calcType = Average -> "Average"
      [] calcType = Max -> "Max"
      [] calcType = Min -> "Min"

GROUP_ == <<"g", "r", "o", "u", "p", "_">>

\* String(value) of a raw value
StringOf(raw) ==
    CASE raw.t = "null" -> <<"n", "u", "l", "l">>
      [] raw.t = "str" -> raw.s
      [] raw.t = "num" -> IntToChars(raw.n)

\* whether a raw value is truthy
truthy(raw) ==
    CASE raw.t = "null" -> FALSE
      [] raw.t = "str" -> raw.s # <<>>
      [] raw.t = "num" -> raw.n # 0
      [] OTHER -> TRUE

\* a number the control has computed
Computed(r) == [t |-> "number", v |-> r]

\* Number(value) of a raw value or of a computed number
toNumber(value) ==
    CASE value.t = "number" -> value.v
      [] value.t = "null" -> Num(0)
      [] value.t = "str" -> JsNumber(value.s)
      [] value.t = "num" -> Num(value.n)
      [] value.t = "date" -> Num(value.ms)

\* val instanceof Date ? val.getTime() : Number(val)
timeOrNumber(value) == toNumber(value)

\* the order of the UTF-16 code units of the characters the labels use
CodeUnitOrder ==
    <<"\"", "(", ")", "+", "-", ".">> \o Digits \o Upper \o <<"\\", "_">>
        \o Lower \o <<"|">>
CodeUnit(c) == CHOOSE i \in 1..Len(CodeUnitOrder) : CodeUnitOrder[i] = c

\* the comparison of Array.prototype.sort() without a comparator: by code
\* units, a proper prefix first
RECURSIVE defaultCompare(_, _)
defaultCompare(a, b) ==
    IF a = <<>> /\ b = <<>> THEN 0
    ELSE IF a = <<>> THEN -1
    ELSE IF b = <<>> THEN 1
    ELSE IF CodeUnit(a[1]) < CodeUnit(b[1]) THEN -1
    ELSE IF CodeUnit(a[1]) > CodeUnit(b[1]) THEN 1
    ELSE defaultCompare(Tail(a), Tail(b))

\* the first difference of case between two strings that are equal without
\* case: lower case comes first
RECURSIVE caseCompare(_, _)
caseCompare(a, b) ==
    IF a = <<>> THEN 0
    ELSE IF a[1] = b[1] THEN caseCompare(Tail(a), Tail(b))
    ELSE IF \E i \in 1..26 : Upper[i] = b[1] THEN -1 ELSE 1

\* a.localeCompare(b) without options: the letters decide, then their case
localeCompareDefault(a, b) ==
    LET RECURSIVE primary(_, _)
        primary(x, y) ==
            IF x = <<>> /\ y = <<>> THEN 0
            ELSE IF x = <<>> THEN -1
            ELSE IF y = <<>> THEN 1
            ELSE IF CollationWeight(x[1]) < CollationWeight(y[1]) THEN -1
            ELSE IF CollationWeight(x[1]) > CollationWeight(y[1]) THEN 1
            ELSE primary(Tail(x), Tail(y))
    IN  IF primary(a, b) # 0 THEN primary(a, b) ELSE caseCompare(a, b)

\* the comparators the control sorts with: the order of rows is
\* (a, b) => a.rowLabel.localeCompare(b.rowLabel), the order of keys is
\* the default order of sort()
compareWith(compare, a, b) ==
    IF compare = "rowLabel" THEN localeCompareDefault(a.rowLabel, b.rowLabel)
    ELSE defaultCompare(a, b)

\* Array.prototype.sort with one of the comparators: a stable sort
sortWith(array, compare) ==
    LET RECURSIVE insert(_, _)
        insert(sorted, x) ==
            IF sorted = <<>> THEN <<x>>
            ELSE IF compareWith(compare, sorted[Len(sorted)], x) > 0
                 THEN Append(insert(SubSeq(sorted, 1, Len(sorted) - 1), x),
                             sorted[Len(sorted)])
                 ELSE Append(sorted, x)
        RECURSIVE sorted(_)
        sorted(s) ==
            IF s = <<>> THEN <<>>
            ELSE insert(sorted(SubSeq(s, 1, Len(s) - 1)), s[Len(s)])
    IN  sorted(array)

\* array.push(...more)
RECURSIVE Flatten(_)
Flatten(arrays) ==
    IF arrays = <<>> THEN <<>>
    ELSE Flatten(SubSeq(arrays, 1, Len(arrays) - 1)) \o arrays[Len(arrays)]

getFieldValue(record, fieldName) == getValue(record, fieldName)

\* the control's getFormattedValue: the formatted value, or the string of a
\* truthy raw value, or ""
formattedOrString(record, fieldName) ==
    IF getFormattedValue(record, fieldName) # <<>>
    THEN getFormattedValue(record, fieldName)
    ELSE IF truthy(getValue(record, fieldName))
         THEN StringOf(getValue(record, fieldName)) ELSE <<>>

\* dataset.columns.find(col => col.name === f || col.alias === f): its
\* index, 0 when absent
findByNameOrAlias(cols, fieldName) ==
    IF \E i \in 1..Len(cols) : cols[i].name = fieldName \/ cols[i].alias = fieldName
    THEN CHOOSE i \in 1..Len(cols) :
             /\ cols[i].name = fieldName \/ cols[i].alias = fieldName
             /\ \A j \in 1..(i - 1) :
                    cols[j].name # fieldName /\ cols[j].alias # fieldName
    ELSE 0

\* values.reduce((sum, val) => sum + Number(val), 0)
RECURSIVE sumOfNumbers(_)
sumOfNumbers(values) ==
    IF values = <<>> THEN Num(0)
    ELSE RAdd(sumOfNumbers(SubSeq(values, 1, Len(values) - 1)),
              toNumber(values[Len(values)]))

\* the reduce of Max, from values[0] over all the values
RECURSIVE maxOfValues(_)
maxOfValues(values) ==
    IF values = <<>> THEN Null
    ELSE IF Len(values) = 1 THEN values[1]
    ELSE LET max == maxOfValues(SubSeq(values, 1, Len(values) - 1))
             val == values[Len(values)]
         IN  IF RLess(timeOrNumber(max), timeOrNumber(val)) THEN val ELSE max

\* the reduce of Min
RECURSIVE minOfValues(_)
minOfValues(values) ==
    IF values = <<>> THEN Null
    ELSE IF Len(values) = 1 THEN values[1]
    ELSE LET min == minOfValues(SubSeq(values, 1, Len(values) - 1))
             val == values[Len(values)]
         IN  IF RLess(timeOrNumber(val), timeOrNumber(min)) THEN val ELSE min

\* String(result)
stringOfResult(result) ==
    CASE result.t = "number" -> Formatted("plain", result.v)
      [] result.t = "num" -> Formatted("plain", Num(result.n))
      [] result.t = "date" -> Formatted("dateString", Num(result.ms))
      [] OTHER -> Text(StringOf(result))

\* the formatting of the result by the type of the cell content column
formatResult(result, cols, column) ==
    IF column = 0 \/ result = Null THEN stringOfResult(result)
    ELSE IF cols[column].dataType = "Currency"
    THEN Formatted("currency", RoundTo(toNumber(result), 2))
    ELSE IF cols[column].dataType \in {"Decimal", "FP"}
    THEN Formatted("decimal", RoundTo(toNumber(result), 2))
    ELSE IF cols[column].dataType = "Whole.None"
    THEN Formatted("number", RoundTo(toNumber(result), 3))
    ELSE IF cols[column].dataType \in DateTypes /\ result.t = "date"
    THEN Formatted("date", Num(result.ms \div 86400000))
    ELSE stringOfResult(result)

\* records: the indices of the records in dataset.records
calculateCellValue(recs, fieldName, calculation, data) ==
    LET column == findByNameOrAlias(data.columns, fieldName)
        values == SelectSeq([i \in 1..Len(recs) |->
                                getFieldValue(data.records[recs[i]], fieldName)],
                            LAMBDA v : v # Null)
        result ==
            CASE calculation = Count -> Computed(Num(Len(values)))
              [] calculation = Sum -> Computed(sumOfNumbers(values))
              [] calculation = Average ->
                    IF Len(values) > 0
                    THEN Computed(RDiv(sumOfNumbers(values), Len(values)))
                    ELSE Computed(Num(0))
              [] calculation = Max -> maxOfValues(values)
              [] calculation = Min -> minOfValues(values)
              [] OTHER -> Null
    IN  IF Len(recs) = 0 \/ (Len(values) = 0 /\ calculation # Count)
        THEN [value |-> Null, formattedValue |-> Text(<<>>)]
        ELSE [value |-> result,
              formattedValue |-> formatResult(result, data.columns, column)]

----------------------------------------------------------------------------
(* The DOM matrix control: processDataset *)

\* rows.get(rowKey): the index of the row in the Map's order, 0 when absent
rowIndex(rows, rowKey) ==
    IF \E i \in 1..Len(rows) : rows[i].rowKey = rowKey
    THEN CHOOSE i \in 1..Len(rows) : rows[i].rowKey = rowKey
    ELSE 0

\* the row that the first record of a row key creates
newRow(record, rowKey, rowLabel, rowGroupField) ==
    [rowKey |-> rowKey,
     rowLabel |-> rowLabel,
     cells |-> EmptyMap,
     isGroup |-> FALSE,
     isExpanded |-> "undefined",
     groupKey |-> IF rowGroupField # ""
                  THEN Str(StringOf(getFieldValue(record, rowGroupField)))
                  ELSE Undefined]

\* the body of the forEach over sortedRecordIds, for the record with index id
processRecord(acc, id, record, rowHeaderField, columnHeaderField, rowGroupField) ==
    LET rowKey == StringOf(getFieldValue(record, rowHeaderField))
        rowLabel == formattedOrString(record, rowHeaderField)
        columnKey == StringOf(getFieldValue(record, columnHeaderField))
        found == rowIndex(acc.rows, rowKey)
        rows == IF found = 0
                THEN Append(acc.rows, newRow(record, rowKey, rowLabel, rowGroupField))
                ELSE acc.rows
        at == IF found = 0 THEN Len(rows) ELSE found
        cell == IF MapHas(rows[at].cells, columnKey)
                THEN rows[at].cells[columnKey]
                ELSE [records |-> <<>>, value |-> Null, formattedValue |-> Text(<<>>)]
    IN  [rows |-> [rows EXCEPT ![at].cells =
                      MapSet(@, columnKey, [cell EXCEPT !.records = Append(@, id)])],
         columnSet |-> SetAdd(acc.columnSet, columnKey)]

RECURSIVE processRecords(_, _, _, _, _)
processRecords(n, recs, rowHeaderField, columnHeaderField, rowGroupField) ==
    IF n = 0 THEN [rows |-> <<>>, columnSet |-> <<>>]
    ELSE processRecord(processRecords(n - 1, recs, rowHeaderField,
                                      columnHeaderField, rowGroupField),
                       n, recs[n], rowHeaderField, columnHeaderField, rowGroupField)

\* if (row.groupKey)
hasGroupKey(row) == row.groupKey # Undefined /\ row.groupKey.s # <<>>

\* groupMap: for each group key, in the order of its first row, the rows of
\* the group (their indices in rows)
RECURSIVE groupMapOf(_, _)
groupMapOf(rows, n) ==
    IF n = 0 THEN <<>>
    ELSE LET groupMap == groupMapOf(rows, n - 1)
             at == {g \in 1..Len(groupMap) : groupMap[g].groupKey = rows[n].groupKey.s}
         IN  IF ~hasGroupKey(rows[n]) THEN groupMap
             ELSE IF at = {}
             THEN Append(groupMap, [groupKey |-> rows[n].groupKey.s, rows |-> <<n>>])
             ELSE [groupMap EXCEPT ![CHOOSE g \in at : TRUE].rows = Append(@, n)]

\* the cells of a row with their calculated value
calculatedRow(row, cellContentField, calculation, data) ==
    [row EXCEPT !.cells =
        [columnKey \in DOMAIN row.cells |->
            LET result == calculateCellValue(row.cells[columnKey].records,
                                             cellContentField, calculation, data)
            IN  [records |-> row.cells[columnKey].records,
                 value |-> result.value,
                 formattedValue |-> result.formattedValue]]]

\* The group header rows that the loop over groupMap builds are not put into
\* rows; groups maps each group key to the rows of the group.
processDataset(data, rowHeaderField, columnHeaderField, cellContentField, rowGroupField, calculation) ==
    LET scanned == processRecords(Len(data.records), data.records, rowHeaderField,
                                  columnHeaderField, rowGroupField)
    IN  [rows |-> [i \in 1..Len(scanned.rows) |->
                      calculatedRow(scanned.rows[i], cellContentField,
                                    calculation, data)],
         columns |-> sortWith(scanned.columnSet, "default"),
         groups |-> IF rowGroupField # ""
                    THEN groupMapOf(scanned.rows, Len(scanned.rows)) ELSE <<>>]

----------------------------------------------------------------------------
(* The DOM matrix control: the table *)

\* a table row: its class, its click handler's group key and the text of
\* its cells
Tr(className, onclick, cells) ==
    [className |-> className, onclick |-> onclick, cells |-> cells]

\* the header cell of a group: the toggle icon and the label
GroupHeader(isExpanded, label) ==
    [kind |-> "group", icon |-> IF isExpanded = "true" THEN "expanded" ELSE "collapsed",
     text |-> label]

createHeaderRow(cols, showRowTotals) ==
    Tr("", Undefined,
       <<Text(<<>>)>>
       \o [j \in 1..Len(cols) |-> Text(cols[j])]
       \o (IF showRowTotals THEN <<Text(<<"T", "o", "t", "a", "l">>)>> ELSE <<>>))

hasRecords(row, columnKey) ==
    MapHas(row.cells, columnKey) /\ Len(row.cells[columnKey].records) > 0

\* rowRecords: the records of the cells of a row, column by column
rowRecordsOf(row, cols) ==
    Flatten([j \in 1..Len(cols) |->
                IF hasRecords(row, cols[j]) THEN row.cells[cols[j]].records
                ELSE <<>>])

\* the data cells of a row and, with row totals, its total cell
cellsOf(row, cols, calculation, showRowTotals, context) ==
    [j \in 1..Len(cols) |->
        IF hasRecords(row, cols[j]) THEN row.cells[cols[j]].formattedValue
        ELSE Text(<<"-">>)]
    \o (IF showRowTotals /\ Len(rowRecordsOf(row, cols)) > 0
        THEN <<calculateCellValue(rowRecordsOf(row, cols),
                                  context.parameters.cellContentField,
                                  calculation,
                                  context.matrixDataSet).formattedValue>>
        ELSE IF showRowTotals THEN <<Text(<<"-">>)>> ELSE <<>>)

createDataRows(rows, cols, calculation, showRowTotals, context) ==
    LET sortedRows == SelectSeq(sortWith(rows, "rowLabel"),
                                LAMBDA row : ~row.isGroup)
    IN  [i \in 1..Len(sortedRows) |->
            Tr("", Undefined,
               <<Text(sortedRows[i].rowLabel)>>
               \o cellsOf(sortedRows[i], cols, calculation, showRowTotals, context))]

\* the rows one group adds to the table
groupRowsOf(rows, group, cols, calculation, showRowTotals, context) ==
    LET groupRow == rowIndex(rows, GROUP_ \o group.groupKey)
        sortedGroupRows == sortWith([i \in 1..Len(group.rows) |-> rows[group.rows[i]]],
                                    "rowLabel")
    IN  IF groupRow = 0 THEN <<>>
        ELSE <<Tr("row-group-header", Str(group.groupKey),
                  <<GroupHeader(rows[groupRow].isExpanded, rows[groupRow].rowLabel)>>
                  \o cellsOf(rows[groupRow], cols, calculation, showRowTotals,
                             context))>>
             \o (IF rows[groupRow].isExpanded = "true"
                 THEN [i \in 1..Len(sortedGroupRows) |->
                          Tr("row-group-child", Undefined,
                             <<Text(sortedGroupRows[i].rowLabel)>>
                             \o cellsOf(sortedGroupRows[i], cols, calculation,
                                        showRowTotals, context))]
                 ELSE <<>>)

createGroupedRows(rows, groups, cols, calculation, showRowTotals, context) ==
    LET sortedGroups == sortWith([g \in 1..Len(groups) |-> groups[g].groupKey],
                                 "default")
    IN  Flatten([g \in 1..Len(sortedGroups) |->
                    groupRowsOf(rows,
                                groups[CHOOSE h \in 1..Len(groups) :
                                           groups[h].groupKey = sortedGroups[g]],
                                cols, calculation, showRowTotals, context)])

\* columnRecords: the records of the cells of a column, row by row
columnRecordsOf(rows, columnKey) ==
    Flatten([i \in 1..Len(rows) |->
                IF ~rows[i].isGroup /\ MapHas(rows[i].cells, columnKey)
                THEN rows[i].cells[columnKey].records ELSE <<>>])

\* Array.from(new Set(ids)): the first occurrence of each
RECURSIVE unique(_)
unique(ids) ==
    IF ids = <<>> THEN <<>>
    ELSE SetAdd(unique(SubSeq(ids, 1, Len(ids) - 1)), ids[Len(ids)])

createTotalsRow(rows, cols, calculation, showRowTotals, context) ==
    LET cellContentField == context.parameters.cellContentField
        grandTotalRecords ==
            Flatten([j \in 1..Len(cols) |-> columnRecordsOf(rows, cols[j])])
    IN  Tr("", Undefined,
           <<Text(<<"T", "o", "t", "a", "l">>)>>
           \o [j \in 1..Len(cols) |->
                  IF Len(columnRecordsOf(rows, cols[j])) > 0
                  THEN calculateCellValue(columnRecordsOf(rows, cols[j]),
                                          cellContentField, calculation,
                                          context.matrixDataSet).formattedValue
                  ELSE Text(<<"-">>)]
           \o (IF ~showRowTotals THEN <<>>
               ELSE IF Len(grandTotalRecords) > 0
               THEN <<calculateCellValue(unique(grandTotalRecords), cellContentField,
                                         calculation,
                                         context.matrixDataSet).formattedValue>>
               ELSE <<Text(<<"-">>)>>))

\* what buildMatrix hands to processDataset
matrixOf(context) ==
    processDataset(context.matrixDataSet, context.parameters.rowHeaderField,
                   context.parameters.columnHeaderField,
                   context.parameters.cellContentField,
                   context.parameters.rowGroupField,
                   context.parameters.cellCalculation.n)

\* the table buildMatrix makes of the matrix processDataset returned
buildMatrix(context, built) ==
    LET prm == context.parameters
        calculation == prm.cellCalculation.n
    IN  [kind |-> "table",
         rows |->
            <<createHeaderRow(built.columns, prm.showRowTotals)>>
            \o (IF prm.rowGroupField # "" /\ Len(built.groups) > 0
                THEN createGroupedRows(built.rows, built.groups, built.columns,
                                       calculation, prm.showRowTotals, context)
                ELSE createDataRows(built.rows, built.columns, calculation,
                                    prm.showRowTotals, context))
            \o (IF prm.showColumnTotals
                THEN <<createTotalsRow(built.rows, built.columns, calculation,
                                       prm.showRowTotals, context)>>
                ELSE <<>>)]

----------------------------------------------------------------------------
(* The DOM matrix control: validateInputs, updateView, toggleGroup *)

\* the string validateInputs returns: which message, and the calculation
\* and data type it names
Invalid(kind, calculation, dataType) ==
    [kind |-> kind, calculation |-> calculation, dataType |-> dataType]
NoValidationError == [kind |-> "null"]

validateInputs(context) ==
    LET prm == context.parameters
        cols == context.matrixDataSet.columns
        cellColumn == findByNameOrAlias(cols, prm.cellContentField)
        dataType == cols[cellColumn].dataType
        calcType == prm.cellCalculation.n
    IN  IF prm.rowHeaderField = "" THEN Invalid("RowHeaderRequired", "", "")
        ELSE IF prm.columnHeaderField = ""
        THEN Invalid("ColumnHeaderRequired", "", "")
        ELSE IF prm.cellContentField = ""
        THEN Invalid("CellContentRequired", "", "")
        ELSE IF prm.cellCalculation = Null
        THEN Invalid("CellCalculationRequired", "", "")
        ELSE IF Len(cols) = 0 \/ cellColumn = 0 THEN NoValidationError
        ELSE IF /\ calcType \in {Sum, Average}
                /\ dataType \notin {"Whole.None", "Decimal", "Currency", "FP"}
        THEN Invalid("OnlyNumeric", CellCalculationName(calcType), dataType)
        ELSE IF /\ calcType \in {Max, Min}
                /\ dataType \notin {"Whole.None", "Decimal", "Currency", "FP",
                                    "DateAndTime.DateOnly", "DateAndTime.DateAndTime"}
        THEN Invalid("OnlyNumericOrDate", CellCalculationName(calcType), dataType)
        ELSE NoValidationError

\* whether updateView gets as far as buildMatrix
isBuilt(context) ==
    /\ validateInputs(context) = NoValidationError
    /\ Len(context.matrixDataSet.records) > 0

\* a mutant: the children of the container are left where they are
removeChildren_None(children) == children

\* while (this._container.firstChild) removeChild(firstChild)
RECURSIVE removeChildren(_)
removeChildren(children) ==
    IF children = <<>> THEN children ELSE removeChildren(Tail(children))

\* the children of the container after updateView(context) of the DOM
\* control, children being the ones it had and built what processDataset
\* returns in the call: the old children are removed and one div is appended
matrixUpdateView(children, context, built) ==
    removeChildren(children) \o
    <<[className |-> "custom-matrix-container",
       content |->
          IF validateInputs(context) # NoValidationError
          THEN [kind |-> "matrix-error", error |-> validateInputs(context)]
          ELSE IF Len(context.matrixDataSet.records) = 0
          THEN [kind |-> "loading-message", text |-> "No records to display"]
          ELSE buildMatrix(context, built)]>>

\* a JSON string literal whose characters are written as they are
jsonEscape_AsItIs(cs) == cs


\* a JSON string literal
RECURSIVE jsonEscape(_)
jsonEscape(cs) ==
    IF cs = <<>> THEN <<>>
    ELSE (IF cs[1] \in {"\"", "\\"} THEN <<"\\", cs[1]>> ELSE <<cs[1]>>)
         \o jsonEscape(Tail(cs))

RECURSIVE jsonItems(_)
jsonItems(array) ==
    IF array = <<>> THEN <<>>
    ELSE (IF Len(array) > 1
          THEN jsonItems(SubSeq(array, 1, Len(array) - 1)) \o <<",">> ELSE <<>>)
         \o <<"\"">> \o jsonEscape(array[Len(array)]) \o <<"\"">>

\* JSON.stringify of an array of strings
jsonStringify(array) == <<"[">> \o jsonItems(array) \o <<"]">>

\* the index of the quote that closes the string literal whose characters
\* start at i, 0 when the literal is not closed
RECURSIVE jsonStringEnd(_, _)
jsonStringEnd(cs, i) ==
    IF i > Len(cs) THEN 0
    ELSE IF cs[i] = "\\" THEN jsonStringEnd(cs, i + 2)
    ELSE IF cs[i] = "\"" THEN i
    ELSE jsonStringEnd(cs, i + 1)

\* the string a JSON string literal stands for
RECURSIVE jsonUnescape(_)
jsonUnescape(cs) ==
    IF cs = <<>> THEN <<>>
    ELSE IF cs[1] = "\\" /\ Len(cs) > 1
         THEN <<cs[2]>> \o jsonUnescape(SubSeq(cs, 3, Len(cs)))
    ELSE <<cs[1]>> \o jsonUnescape(Tail(cs))

SyntaxError == [ok |-> FALSE, value |-> <<>>]

\* the elements of a JSON array of strings, read from the text between its
\* brackets
RECURSIVE jsonElements(_)
jsonElements(cs) ==
    IF cs = <<>> \/ cs[1] # "\"" \/ jsonStringEnd(cs, 2) = 0 THEN SyntaxError
    ELSE IF jsonStringEnd(cs, 2) = Len(cs)
         THEN [ok |-> TRUE, value |-> <<jsonUnescape(SubSeq(cs, 2, Len(cs) - 1))>>]
    ELSE IF cs[jsonStringEnd(cs, 2) + 1] # ","
            \/ ~jsonElements(SubSeq(cs, jsonStringEnd(cs, 2) + 2, Len(cs))).ok
         THEN SyntaxError
    ELSE [ok |-> TRUE,
          value |-> <<jsonUnescape(SubSeq(cs, 2, jsonStringEnd(cs, 2) - 1))>>
                    \o jsonElements(SubSeq(cs, jsonStringEnd(cs, 2) + 2, Len(cs))).value]

\* JSON.parse of the text of an array of strings; it throws a SyntaxError on
\* any other text
jsonParse(cs) ==
    IF Len(cs) < 2 \/ cs[1] # "[" \/ cs[Len(cs)] # "]" THEN SyntaxError
    ELSE IF Len(cs) = 2 THEN [ok |-> TRUE, value |-> <<>>]
    ELSE jsonElements(SubSeq(cs, 2, Len(cs) - 1))

\* _collapsedGroups after init(context, notifyOutputChanged, state,
\* container): the field starts as an empty Set, and a state with a text
\* under collapsedGroups replaces it; when JSON.parse throws, the field is
\* left as it started
initCollapsedGroups(state) ==
    IF state # Undefined /\ state.collapsedGroups # <<>>
       /\ jsonParse(state.collapsedGroups).ok
    THEN unique(jsonParse(state.collapsedGroups).value)
    ELSE <<>>

\* a mutant: the group key is added and never deleted
toggled_AddOnly(set, groupKey) ==
    IF \E i \in 1..Len(set) : set[i] = groupKey THEN set ELSE Append(set, groupKey)


\* the Set after toggleGroup(groupKey): delete keeps the order of the rest
toggled(set, groupKey) ==
    IF \E i \in 1..Len(set) : set[i] = groupKey
    THEN SelectSeq(set, LAMBDA k : k # groupKey)
    ELSE Append(set, groupKey)

----------------------------------------------------------------------------
(* The inputs of the model *)

A == <<"a">>
A_A == <<"a", "_", "|", "_", "a">>

TextField(cs) == Field(Str(cs), cs)
NullField == Field(Null, <<>>)
NumField(n) == Field(NumV(n), IntToChars(n))

Record(row, col, val) == [row |-> row, col |-> col, val |-> val]

\* The records a dataset is made of.  Two of the cells collide on their
\* cell key, one column is labelled like the rowTotal property, one row is
\* an option with a formatted label, one value is a Date.
RecordUniverse ==
    { Record(TextField(A), TextField(A_A), NullField),
      Record(TextField(A), TextField(A_A), NumField(2)),
      Record(TextField(A_A), TextField(A), NumField(5)),
      Record(TextField(A), TextField(A), NumField(0)),
      Record(TextField(A), TextField(A), NumField(3)),
      Record(NullField, NullField, NumField(-3)),
      Record(TextField(A), TextField(ROWTOTAL), NumField(1)),
      Record(Field(NumV(2), <<"b">>), TextField(A),
             Field(DateV(7), <<"d">>)) }

Column(name, dataType) == [name |-> name, displayName |-> "", dataType |-> dataType]

\* the columns of a dataset: "-" leaves the column out
Schema(rowType, columnType, valueType) ==
    SelectSeq(<<Column("row", rowType), Column("col", columnType),
                Column("val", valueType)>>,
              LAMBDA c : c.dataType # "-")

AxisTypes == {"SingleLine.Text", "-"} \cup FormattedKeyTypes \cup LookupTypes

Schemas ==
    {<<>>}
    \cup {Schema(t, "SingleLine.Text", "Whole.None") : t \in AxisTypes}
    \cup {Schema("SingleLine.Text", t, "Whole.None") : t \in AxisTypes}
    \cup {Schema("SingleLine.Text", "SingleLine.Text", t) :
             t \in {"SingleLine.Text", "OptionSet", "-"} \cup NumericTypes \cup DateTypes}
    \cup {Schema("Lookup.Owner", "-", "Whole.None"),
          Schema("Lookup.Simple", "SingleLine.Text", "-"),
          Schema("-", "SingleLine.Text", "SingleLine.Text"),
          Schema("SingleLine.Text", "Lookup.Customer", "SingleLine.Text"),
          Schema("OptionSet", "SingleLine.Text", "DateAndTime.DateOnly"),
          Schema("OptionSet", "OptionSet", "Currency")}

\* the schemas whose datasets are explored up to MaxRecords records
DataSchemas ==
    {Schema("SingleLine.Text", "SingleLine.Text", "Whole.None"),
     Schema("OptionSet", "SingleLine.Text", "DateAndTime.DateOnly")}


Params(aggregationType, showTotals) ==
    [groupByRow |-> "row", groupByColumn |-> "col", valueField |-> "val",
     aggregationType |-> aggregationType, showTotals |-> showTotals,
     showTitle |-> TRUE]

\* how many records the dataset of a context is explored with
RecordBound(cols, prm) ==
    IF cols \in DataSchemas /\ prm.showTotals THEN MaxRecords ELSE MaxFewRecords

----------------------------------------------------------------------------
(* The state machine: the host changes the context and calls updateView *)

NotCalled == [called |-> FALSE]
Nothing == [kind |-> "nothing"]

\* init: the root is created and nothing is rendered yet
Init ==
    /\ columns \in Schemas
    /\ records = <<>>
    /\ params \in {Params("0", t) : t \in BOOLEAN}
    /\ pivot = NotCalled
    /\ rendered = Nothing
    /\ collapsedGroups = <<>>
    /\ controlState = Undefined
    /\ matrix = Undefined
    /\ container = <<>>

\* the engine and updateView on the new context
Refresh ==
    /\ pivot' = transformDatasetToPivot([columns |-> columns', records |-> records'],
                                        configOf(params'))
    /\ rendered' = updateView([columns |-> columns', records |-> records'], params',
                              pivot')
    /\ UNCHANGED <<collapsedGroups, controlState, matrix, container>>

\* the dataset delivers one more record
AddRecord ==
    /\ Len(records) < RecordBound(columns, params)
    /\ \E r \in RecordUniverse : records' = Append(records, r)
    /\ UNCHANGED <<columns, params>>
    /\ Refresh

\* the aggregation type property changes
SetAggregation ==
    /\ \E a \in {"0", "1", "2", "3", "4"} \ {params.aggregationType} :
           params' = [params EXCEPT !.aggregationType = a]
    /\ UNCHANGED <<columns, records>>
    /\ Refresh

\* the host calls updateView again with the context unchanged
UpdateAgain ==
    /\ pivot # NotCalled
    /\ UNCHANGED <<columns, records, params>>
    /\ Refresh

Next == AddRecord \/ SetAggregation \/ UpdateAgain

Spec == Init /\ [][Next]_vars

----------------------------------------------------------------------------
(* The PivotTable component on pivot data of its own *)

\* The pivot data the component is given: one or two rows, one or two
\* columns, the second column labelled like the rowTotal property, and any
\* of the cells absent.
PivotDataUniverse ==
    {Returned(rowKeys, columnKeys, [k \in present |-> values[k]]) :
        rowKeys \in {<<A>>, <<A, <<"b">>>>},
        columnKeys \in {<<A>>, <<A, ROWTOTAL>>},
        present \in SUBSET {cellKeyOf(r, c) : r \in {A, <<"b">>}, c \in {A, ROWTOTAL}},
        values \in [{cellKeyOf(r, c) : r \in {A, <<"b">>}, c \in {A, ROWTOTAL}}
                       -> {Num(0), Num(2)}]}

\* the props of the component, nothing rendered yet
TableInit ==
    /\ columns = Schema("SingleLine.Text", "SingleLine.Text", "Whole.None")
    /\ records = <<>>
    /\ params \in {Params(a, TRUE) : a \in {"0", "1", "2", "3", "4"}}
    /\ pivot \in PivotDataUniverse
    /\ rendered = Nothing
    /\ collapsedGroups = <<>>
    /\ controlState = Undefined
    /\ matrix = Undefined
    /\ container = <<>>

\* React renders the component with the props
RenderTable ==
    /\ rendered = Nothing
    /\ rendered' = PivotTable(pivot, "Whole.None", configOf(params).aggregationType,
                              params.showTotals, params.showTitle,
                              titleTextOf(columns, configOf(params)))
    /\ UNCHANGED <<columns, records, params, pivot, collapsedGroups, controlState,
                   matrix, container>>

TableNext == RenderTable

TableSpec == TableInit /\ [][TableNext]_vars

----------------------------------------------------------------------------
(* The inputs and the state machine of the DOM matrix control *)


\* The records of the matrix dataset.  One has no cell content, one has the
\* empty string as its group, one has no row, column and group at all, and
\* two rows are keyed like the header row of their group; the label of the
\* second group has the two characters JSON escapes.
MatrixRecordUniverse ==
    { [row |-> TextField(A), col |-> TextField(A), val |-> NullField,
       grp |-> TextField(<<"g">>)],
      [row |-> TextField(A), col |-> TextField(A), val |-> NumField(2),
       grp |-> TextField(<<"g">>)],
      [row |-> TextField(<<"b">>), col |-> TextField(<<"b">>), val |-> NumField(5),
       grp |-> TextField(<<>>)],
      [row |-> NullField, col |-> NullField, val |-> NumField(-3), grp |-> NullField],
      [row |-> TextField(GROUP_ \o <<"g">>), col |-> TextField(A),
       val |-> NumField(0), grp |-> TextField(<<"g">>)],
      [row |-> TextField(GROUP_ \o <<"\\", "\"">>), col |-> TextField(A),
       val |-> NumField(1), grp |-> TextField(<<"\\", "\"">>)] }

MatrixColumn(name, alias, dataType) ==
    [name |-> name, alias |-> alias, dataType |-> dataType]

\* the columns of a matrix dataset with a cell content column of a type
MatrixSchema(valueType) ==
    <<MatrixColumn("row", "row", "SingleLine.Text"),
      MatrixColumn("col", "col", "SingleLine.Text"),
      MatrixColumn("val", "val", valueType),
      MatrixColumn("grp", "grp", "SingleLine.Text")>>

MatrixSchemas ==
    {MatrixSchema(t) : t \in {"Whole.None", "Currency", "SingleLine.Text",
                              "DateAndTime.DateOnly"}}
    \cup {<<>>,
          <<MatrixColumn("row", "row", "SingleLine.Text"),
            MatrixColumn("col", "col", "SingleLine.Text")>>,
          <<MatrixColumn("row", "row", "SingleLine.Text"),
            MatrixColumn("col", "col", "SingleLine.Text"),
            MatrixColumn("a1.val", "val", "SingleLine.Text")>>}

MatrixParams(rowGroupField, showTotals) ==
    [rowHeaderField |-> "row", columnHeaderField |-> "col",
     cellContentField |-> "val", rowGroupField |-> rowGroupField,
     cellCalculation |-> NumV(Count),
     showColumnTotals |-> showTotals, showRowTotals |-> showTotals]

\* the parameters the dataset is explored with up to MaxMatrixRecords records
FullMatrixParams == {MatrixParams("", TRUE), MatrixParams("grp", TRUE)}

MatrixParamsUniverse ==
    FullMatrixParams
    \cup {MatrixParams("", FALSE),
          [MatrixParams("", TRUE) EXCEPT !.rowHeaderField = ""],
          [MatrixParams("", TRUE) EXCEPT !.columnHeaderField = ""],
          [MatrixParams("", TRUE) EXCEPT !.cellContentField = ""],
          [MatrixParams("", TRUE) EXCEPT !.cellCalculation = Null]}

MatrixRecordBound(cols, prm) ==
    IF cols = MatrixSchema("Whole.None") /\ prm.rowHeaderField = "row"
       /\ [prm EXCEPT !.cellCalculation = NumV(Count)] \in FullMatrixParams
    THEN MaxMatrixRecords ELSE MaxFewRecords

\* the context the host hands to the DOM control
contextOf(cols, recs, prm) ==
    [parameters |-> prm, matrixDataSet |-> [columns |-> cols, records |-> recs]]

\* init of the DOM control without a stored state
MatrixInit ==
    /\ columns \in MatrixSchemas
    /\ records = <<>>
    /\ params \in MatrixParamsUniverse
    /\ collapsedGroups = <<>>
    /\ controlState = Undefined
    /\ matrix = Undefined
    /\ container = <<>>
    /\ pivot = NotCalled
    /\ rendered = Nothing

\* the dataset delivers one more record and the host calls updateView
MatrixAddRecord ==
    /\ Len(records) < MatrixRecordBound(columns, params)
    /\ \E r \in MatrixRecordUniverse : records' = Append(records, r)
    /\ matrix' = IF isBuilt(contextOf(columns, records', params))
                  THEN matrixOf(contextOf(columns, records', params)) ELSE Undefined
    /\ container' = matrixUpdateView(container, contextOf(columns, records', params), matrix')
    /\ UNCHANGED <<columns, params, collapsedGroups, controlState, pivot, rendered>>

\* the cell calculation property changes and the host calls updateView
MatrixSetCalculation ==
    /\ params.cellCalculation # Null
    /\ \E c \in {Count, Sum, Average, Max, Min} \ {params.cellCalculation.n} :
           params' = [params EXCEPT !.cellCalculation = NumV(c)]
    /\ matrix' = IF isBuilt(contextOf(columns, records, params'))
                  THEN matrixOf(contextOf(columns, records, params')) ELSE Undefined
    /\ container' = matrixUpdateView(container, contextOf(columns, records, params'), matrix')
    /\ UNCHANGED <<columns, records, collapsedGroups, controlState, pivot, rendered>>

\* the group keys of the group header rows in the container
Clickable ==
    IF container # <<>> /\ container[1].content.kind = "table"
    THEN {container[1].content.rows[i].onclick.s :
             i \in {j \in 1..Len(container[1].content.rows) :
                       container[1].content.rows[j].onclick # Undefined}}
    ELSE {}

\* a click on a group header row: toggleGroup(groupKey)
ToggleGroup ==
    /\ \E groupKey \in Clickable :
           /\ collapsedGroups' = toggled(collapsedGroups, groupKey)
           /\ controlState' =
                  [collapsedGroups |-> jsonStringify(toggled(collapsedGroups, groupKey))]
    /\ matrix' = IF isBuilt(contextOf(columns, records, params))
                  THEN matrixOf(contextOf(columns, records, params)) ELSE Undefined
    /\ container' = matrixUpdateView(container, contextOf(columns, records, params), matrix')
    /\ UNCHANGED <<columns, records, params, pivot, rendered>>

\* the host loads the control anew and hands init the state it was given
\* last
InitWithState ==
    /\ container # <<>>
    /\ collapsedGroups' = initCollapsedGroups(controlState)
    /\ matrix' = Undefined
    /\ container' = <<>>
    /\ UNCHANGED <<columns, records, params, controlState, pivot, rendered>>

\* the host calls updateView with the context as it is
MatrixUpdateView ==
    /\ matrix' = IF isBuilt(contextOf(columns, records, params))
                  THEN matrixOf(contextOf(columns, records, params)) ELSE Undefined
    /\ container' = matrixUpdateView(container, contextOf(columns, records, params), matrix')
    /\ UNCHANGED <<columns, records, params, collapsedGroups, controlState,
                   pivot, rendered>>

MatrixNext ==
    \/ MatrixAddRecord
    \/ MatrixSetCalculation
    \/ ToggleGroup
    \/ InitWithState
    \/ MatrixUpdateView

MatrixSpec == MatrixInit /\ [][MatrixNext]_vars

----------------------------------------------------------------------------
(* The DOM matrix control on groups whose header rows are rendered *)

\* group labels that are numbers and group labels that differ in case
GroupLabelUniverse == {<<"1">>, <<"2">>, <<"1", "0">>, <<"B">>, <<"a">>}

\* grouped by grp, and nothing rendered yet
GroupInit ==
    /\ columns = MatrixSchema("Whole.None")
    /\ records = <<>>
    /\ params \in {MatrixParams("grp", t) : t \in BOOLEAN}
    /\ collapsedGroups = <<>>
    /\ controlState = Undefined
    /\ matrix = Undefined
    /\ container = <<>>
    /\ pivot = NotCalled
    /\ rendered = Nothing

\* the dataset delivers one more record, of a row that is keyed like the
\* header row of its group, and the host calls updateView
AddGroupRecord ==
    /\ Len(records) < MaxGroupRecords
    /\ \E label \in GroupLabelUniverse :
           records' = Append(records,
                             [row |-> TextField(GROUP_ \o label), col |-> TextField(A),
                              val |-> NumField(1), grp |-> TextField(label)])
    /\ matrix' = IF isBuilt(contextOf(columns, records', params))
                  THEN matrixOf(contextOf(columns, records', params)) ELSE Undefined
    /\ container' = matrixUpdateView(container, contextOf(columns, records', params), matrix')
    /\ UNCHANGED <<columns, params, collapsedGroups, controlState, pivot, rendered>>

GroupNext == AddGroupRecord

GroupSpec == GroupInit /\ [][GroupNext]_vars

----------------------------------------------------------------------------
(* The pivot engine on records whose labels exercise the comparator *)

\* Labels that parse fully as numbers, labels with runs of digits, labels
\* that differ in case only, and "1.7x", which is no number but lies between
\* "1.5" and "1.10" as text.
LabelUniverse ==
    { <<"1">>, <<"2">>, <<"1", "0">>,
      <<"I", "t", "e", "m", "1">>, <<"I", "t", "e", "m", "2">>,
      <<"I", "t", "e", "m", "1", "0">>, <<"i", "t", "e", "m", "2">>,
      <<"1", ".", "1", "0">>, <<"1", ".", "5">>, <<"1", ".", "7", "x">> }

\* init with text axes and a whole number value field
LabelInit ==
    /\ columns = Schema("SingleLine.Text", "SingleLine.Text", "Whole.None")
    /\ records = <<>>
    /\ params \in {Params("0", t) : t \in BOOLEAN}
    /\ pivot = NotCalled
    /\ rendered = Nothing
    /\ collapsedGroups = <<>>
    /\ controlState = Undefined
    /\ matrix = Undefined
    /\ container = <<>>

\* the dataset delivers one more record, labelled alike on both axes
AddLabelRecord ==
    /\ Len(records) < MaxLabelRecords
    /\ \E label \in LabelUniverse :
           records' = Append(records, Record(TextField(label), TextField(label),
                                             NumField(1)))
    /\ UNCHANGED <<columns, params>>
    /\ Refresh

LabelNext == AddLabelRecord

LabelSpec == LabelInit /\ [][LabelNext]_vars

----------------------------------------------------------------------------
(* What the claims speak of: the configuration in force, the columns it  *)
(* names and the records of a row and column intersection                *)

config == configOf(params)
dataset == [columns |-> columns, records |-> records]

rowColumn == FindColumn(columns, config.groupByRow)
columnColumn == FindColumn(columns, config.groupByColumn)
valueColumn == FindColumn(columns, config.valueField)

\* the engine has run on the current inputs
Called == pivot # NotCalled
\* it has run on a non-empty record set and returned a result
Transformed == Called /\ ~pivot.threw /\ records # <<>>

rowKeyOf(record) == axisKey(record, config.groupByRow, columns[rowColumn].dataType)
columnKeyOf(record) ==
    axisKey(record, config.groupByColumn, columns[columnColumn].dataType)

\* the records of the intersection of a row label and a column label
CellRecords(r, c) ==
    {i \in 1..Len(records) : rowKeyOf(records[i]) = r /\ columnKeyOf(records[i]) = c}
\* those of them whose value field is not null
CellValued(r, c) ==
    {i \in CellRecords(r, c) : getValue(records[i], config.valueField) # Null}

\* the value the result holds for the cell of a row label and a column label
CellValue(r, c) == gridGet(pivot.gridData, cellKeyOf(r, c))

\* the number a record's value field stands for
ValueOf(i) ==
    numericValue(getValue(records[i], config.valueField),
                 isDateField(columns[valueColumn].dataType))

RECURSIVE SumOfSet(_)
SumOfSet(S) ==
    IF S = {} THEN Num(0)
    ELSE LET i == CHOOSE x \in S : TRUE
         IN  RAdd(ValueOf(i), SumOfSet(S \ {i}))

\* the cells of the result, one for each row label and column label
Cells == {<<pivot.rowKeys[i], pivot.columnKeys[j]>> :
             i \in 1..Len(pivot.rowKeys), j \in 1..Len(pivot.columnKeys)}

RECURSIVE SumOfCells(_)
SumOfCells(S) ==
    IF S = {} THEN 0
    ELSE LET x == CHOOSE y \in S : TRUE
             v == CellValue(x[1], x[2])
         IN  (IF v = Undefined THEN 0 ELSE v.n) + SumOfCells(S \ {x})

----------------------------------------------------------------------------
(* C1 *)

\* C1: under COUNT the value of every cell is the number of records whose
\* row key and column key are the cell's, null-valued records included, and
\* the cell values add up to the number of records.
C1_CountCountsEveryRecord ==
    (Transformed /\ config.aggregationType = "COUNT") =>
        /\ \A x \in Cells :
              CellValue(x[1], x[2]) # Undefined =>
                  CellValue(x[1], x[2]) = Num(Cardinality(CellRecords(x[1], x[2])))
        /\ SumOfCells(Cells) = Len(records)

----------------------------------------------------------------------------
(* C2 *)

\* the table the DOM control shows, and the cells of its header row
IsTable == container # <<>> /\ container[1].content.kind = "table"
Table == container[1].content
HeaderCells == Table.rows[1].cells

\* the table rows and columns that stand for a row label, a column key, a
\* total of the columns (the last row) or a total of the rows (the last column)
IsTotalsRow(k) == params.showColumnTotals /\ k = Len(Table.rows)
IsTotalColumn(j) == params.showRowTotals /\ j = Len(HeaderCells)
IsLabelRow(k) == Table.rows[k].cells[1].kind = "text"

\* the records of the dataset that belong to table row k and table column j
InRow(k, i) ==
    \/ IsTotalsRow(k)
    \/ formattedOrString(records[i], params.rowHeaderField) = Table.rows[k].cells[1].text
InColumn(j, i) ==
    \/ IsTotalColumn(j)
    \/ StringOf(getFieldValue(records[i], params.columnHeaderField)) = HeaderCells[j].text
RecordsAt(k, j) == {i \in 1..Len(records) : InRow(k, i) /\ InColumn(j, i)}

\* C2: in the DOM matrix control with Cell Calculation Count, every cell,
\* row total and column total that has records shows the number of those
\* records, records without cell content included.
C2_CountCountsRecords ==
    (IsTable /\ params.cellCalculation = NumV(Count)) =>
        \A k \in 2..Len(Table.rows) : \A j \in 2..Len(HeaderCells) :
            (/\ IsLabelRow(k)
             /\ ~(IsTotalsRow(k) /\ IsTotalColumn(j))
             /\ RecordsAt(k, j) # {}) =>
                /\ Table.rows[k].cells[j].kind = "number"
                /\ Table.rows[k].cells[j].value = Num(Cardinality(RecordsAt(k, j)))

----------------------------------------------------------------------------
(* C3, C4 *)

\* C3: under SUM, AVERAGE, MIN and MAX the value of every present cell is
\* the sum, the mean, the minimum, the maximum of the non-null values of the
\* records of that row and column intersection; null values count for nothing.
C3_NullsContributeNothing ==
    (Transformed /\ config.aggregationType \in {"SUM", "AVG", "MIN", "MAX"}) =>
        \A x \in Cells :
            LET v == CellValue(x[1], x[2])
                S == CellValued(x[1], x[2])
            IN  v # Undefined =>
                CASE config.aggregationType = "SUM" -> v = SumOfSet(S)
                  [] config.aggregationType = "AVG" ->
                        S # {} /\ v = RDiv(SumOfSet(S), Cardinality(S))
                  [] config.aggregationType = "MIN" ->
                        /\ \E i \in S : v = ValueOf(i)
                        /\ \A i \in S : ~RLess(ValueOf(i), v)
                  [] config.aggregationType = "MAX" ->
                        /\ \E i \in S : v = ValueOf(i)
                        /\ \A i \in S : ~RLess(v, ValueOf(i))

\* C4: the cell of a row and column intersection all of whose records have
\* a null value is absent from the cell mapping under SUM, AVERAGE, MIN and
\* MAX, and under COUNT it is present with the number of those records.
C4_AllNullCellAbsent ==
    (Called /\ ~pivot.threw /\ records # <<>>) =>
        \A i \in 1..Len(records) :
            LET r == rowKeyOf(records[i])
                c == columnKeyOf(records[i])
            IN  CellValued(r, c) = {} =>
                    IF config.aggregationType = "COUNT"
                    THEN CellValue(r, c) = Num(Cardinality(CellRecords(r, c)))
                    ELSE CellValue(r, c) = Undefined

----------------------------------------------------------------------------
(* C5 *)

\* C5: in the rendered table, for every row label and column label, a cell
\* absent from the cell mapping shows "-" and a present cell shows its
\* aggregate value.
C5_AbsentCellIsPlaceholder ==
    rendered.kind = "table" =>
        \A i \in 1..Len(pivot.rowKeys), j \in 1..Len(pivot.columnKeys) :
            LET v == CellValue(pivot.rowKeys[i], pivot.columnKeys[j])
            IN  rendered.body[i][j + 1] =
                    IF v = Undefined THEN Text(<<"-">>)
                    ELSE formatValue(v, columns[valueColumn].dataType,
                                     config.aggregationType)

----------------------------------------------------------------------------
(* C6 .. C10: the errors of the engine *)

MissingFieldKinds == {"RowFieldNotFound", "ColumnFieldNotFound", "ValueFieldNotFound"}
LookupFieldKinds == {"RowFieldIsLookup", "ColumnFieldIsLookup"}
IncompatibleKinds == {"RequiresNumeric", "RequiresNumericOrDate"}

Failed(kinds) == Called /\ pivot.threw /\ pivot.error.kind \in kinds

\* the types the claims call numeric, temporal and linked-entity references
SaidNumeric == {"Whole.None", "Decimal", "Currency", "FP"}
SaidTemporal == {"DateAndTime.DateOnly", "DateAndTime.DateAndTime"}
SaidLookup == {"Lookup.Simple", "Lookup.Customer", "Lookup.Owner",
               "Lookup.PartyList", "Lookup.Regarding"}

AllFieldsFound == rowColumn # 0 /\ columnColumn # 0 /\ valueColumn # 0
RowIsLookup == rowColumn # 0 /\ columns[rowColumn].dataType \in SaidLookup
ColumnIsLookup == columnColumn # 0 /\ columns[columnColumn].dataType \in SaidLookup

\* the aggregation type does not go with the type of the value field
IncompatibleRequested ==
    /\ valueColumn # 0
    /\ \/ /\ config.aggregationType \in {"SUM", "AVG"}
          /\ columns[valueColumn].dataType \notin SaidNumeric
       \/ /\ config.aggregationType \in {"MIN", "MAX"}
          /\ columns[valueColumn].dataType \notin SaidNumeric \cup SaidTemporal

\* C6, as stated: with a value field that exists and a non-empty record
\* set, the configuration is rejected as an incompatible aggregation exactly
\* when the aggregation type does not go with the value field's type.
C6_IncompatibleIffWrongType ==
    (Called /\ records # <<>> /\ valueColumn # 0) =>
        (Failed(IncompatibleKinds) <=> IncompatibleRequested)

\* C6, amended: when the row, column and value fields all exist, neither
\* the row nor the column field is a lookup and the record set is not
\* empty, the configuration is rejected as an incompatible aggregation
\* exactly when the aggregation type does not go with the value field's
\* type, and the error names the value field, the aggregation type and the
\* type; COUNT is never rejected so; and no input at all is rejected as an
\* incompatible aggregation without such a combination.
C6_IncompatibleIffWrongTypeOfValidFields ==
    /\ (Called /\ records # <<>> /\ AllFieldsFound
            /\ ~RowIsLookup /\ ~ColumnIsLookup) =>
          /\ Failed(IncompatibleKinds) <=> IncompatibleRequested
          /\ IncompatibleRequested =>
                /\ pivot.error.field = config.valueField
                /\ pivot.error.aggregationType = config.aggregationType
                /\ pivot.error.dataType = columns[valueColumn].dataType
          /\ ~IncompatibleRequested => ~pivot.threw
    /\ Failed(IncompatibleKinds) =>
          IncompatibleRequested /\ config.aggregationType # "COUNT"

\* a minimum over a text field of a dataset with records is rejected
C6_Witness ==
    /\ Called /\ records # <<>> /\ AllFieldsFound
    /\ config.aggregationType = "MIN"
    /\ columns[valueColumn].dataType = "SingleLine.Text"
    /\ Failed({"RequiresNumericOrDate"})

\* C7: SUM over a text value field is rejected as an incompatible
\* aggregation whatever the record set is, the empty one included, and the
\* control shows the error.
C7_ValidationBeforeRecords ==
    (Called /\ AllFieldsFound /\ ~RowIsLookup /\ ~ColumnIsLookup
        /\ config.aggregationType = "SUM"
        /\ columns[valueColumn].dataType = "SingleLine.Text") =>
            Failed(IncompatibleKinds) /\ rendered.kind = "error"

AnyFieldMissing == rowColumn = 0 \/ columnColumn = 0 \/ valueColumn = 0
FirstMissingKind ==
    IF rowColumn = 0 THEN "RowFieldNotFound"
    ELSE IF columnColumn = 0 THEN "ColumnFieldNotFound" ELSE "ValueFieldNotFound"
FirstMissingField ==
    IF rowColumn = 0 THEN config.groupByRow
    ELSE IF columnColumn = 0 THEN config.groupByColumn ELSE config.valueField
MissingFields ==
    {f \in {config.groupByRow, config.groupByColumn, config.valueField} :
        FindColumn(columns, f) = 0}

\* C8, as stated: for a non-empty record set the engine fails with a
\* missing-field error naming a missing field whenever the row, column or
\* value field matches no column, and with none when all three match.
C8_MissingFieldIffNoColumn ==
    (Called /\ records # <<>>) =>
        /\ Failed(MissingFieldKinds) <=> AnyFieldMissing
        /\ AnyFieldMissing => pivot.error.field \in MissingFields

\* C8, amended: for a non-empty record set of a dataset with at least one
\* column, the engine fails with a missing-field error whenever the row,
\* column or value field matches no column, and the error names the first
\* of the row, column and value field that matches none; when all three
\* match, no missing-field error is raised.
C8_MissingFieldIffNoColumnOfSome ==
    (Called /\ records # <<>> /\ Len(columns) > 0) =>
        /\ Failed(MissingFieldKinds) <=> AnyFieldMissing
        /\ AnyFieldMissing =>
              /\ pivot.error.kind = FirstMissingKind
              /\ pivot.error.field = FirstMissingField

\* the value field alone matches no column, and the error names it
C8_Witness ==
    /\ Called /\ records # <<>>
    /\ rowColumn # 0 /\ columnColumn # 0 /\ valueColumn = 0
    /\ Failed({"ValueFieldNotFound"}) /\ pivot.error.field = "val"

C10_NotConfiguredIffNoColumns ==
    Called =>
        /\ Failed({"DatasetNotConfigured"}) <=> Len(columns) = 0
        /\ (Len(columns) > 0 /\ records = <<>>) =>
              /\ ~pivot.threw
              /\ pivot.rowKeys = <<>> /\ pivot.columnKeys = <<>>
              /\ DOMAIN pivot.gridData = {}

\* columns that lack the row field, no records: the empty result
C10_Witness ==
    /\ Called /\ Len(columns) > 0 /\ rowColumn = 0 /\ records = <<>>
    /\ ~pivot.threw /\ pivot.rowKeys = <<>>

----------------------------------------------------------------------------
(* C11 *)

\* the key the specification gives a record on an axis: "(Blank)" for no
\* value or an empty display text, the display text for the option types,
\* the string of the raw value for the others
SaidKey(record, fieldName, dataType) ==
    IF getValue(record, fieldName) = Null THEN BLANK
    ELSE IF dataType \in {"OptionSet", "TwoOptions", "MultiSelectOptionSet"}
    THEN IF record[fieldName].formatted = <<>> THEN BLANK
         ELSE record[fieldName].formatted
    ELSE IF record[fieldName].raw.t = "str" THEN record[fieldName].raw.s
    ELSE IntToChars(record[fieldName].raw.n)

SaidRowKey(i) == SaidKey(records[i], config.groupByRow, columns[rowColumn].dataType)
SaidColumnKey(i) ==
    SaidKey(records[i], config.groupByColumn, columns[columnColumn].dataType)

\* the records the engine accumulates: all of them under COUNT, those with
\* a value otherwise
Accumulated ==
    {i \in 1..Len(records) :
        config.aggregationType = "COUNT" \/ getValue(records[i], config.valueField) # Null}

\* C11: the key the engine computes for every record on either axis is the
\* key the specification gives it; the row keys and the column keys of a
\* result are those keys of the accumulated records, each once, so the
\* records without a row (column) value share the one "(Blank)" row
\* (column), and the cell of every accumulated record's keys is present.
C11_AxisKeys ==
    Transformed =>
        /\ \A i \in 1..Len(records) :
              /\ rowKeyOf(records[i]) = SaidRowKey(i)
              /\ columnKeyOf(records[i]) = SaidColumnKey(i)
        /\ {pivot.rowKeys[k] : k \in 1..Len(pivot.rowKeys)}
              = {SaidRowKey(i) : i \in Accumulated}
        /\ {pivot.columnKeys[k] : k \in 1..Len(pivot.columnKeys)}
              = {SaidColumnKey(i) : i \in Accumulated}
        /\ \A k, l \in 1..Len(pivot.rowKeys) :
              pivot.rowKeys[k] = pivot.rowKeys[l] => k = l
        /\ \A k, l \in 1..Len(pivot.columnKeys) :
              pivot.columnKeys[k] = pivot.columnKeys[l] => k = l
        /\ \A i \in Accumulated :
              MapHas(pivot.gridData, cellKeyOf(SaidRowKey(i), SaidColumnKey(i)))

\* an option set row field: two records without a row value and one whose
\* display text is not the string of its raw value
C11_Witness ==
    /\ Transformed
    /\ columns[rowColumn].dataType = "OptionSet"
    /\ Cardinality({i \in 1..Len(records) :
                       getValue(records[i], config.groupByRow) = Null}) = 2
    /\ \E i \in 1..Len(records) :
          /\ getValue(records[i], config.groupByRow) # Null
          /\ SaidRowKey(i) # JsString(getValue(records[i], config.groupByRow))
    /\ Len(pivot.rowKeys) = 2

----------------------------------------------------------------------------
(* C12 *)

\* the order the specification gives two labels: by value when both parse
\* fully as numbers, as natural text without case otherwise
SaidInOrder(a, b) ==
    IF ~isNaN(JsNumber(a)) /\ ~isNaN(JsNumber(b))
    THEN ~RLess(JsNumber(b), JsNumber(a))
    ELSE localeCompare(a, b) <= 0

\* every label of an axis is in order with every later label of it
AxisInOrder(keys) ==
    \A i, j \in 1..Len(keys) : i < j => SaidInOrder(keys[i], keys[j])

\* C12: the row keys and the column keys of a result are sorted: every two
\* of them stand in the order of the smart comparator, by value when both
\* are numbers and as natural text without case otherwise.
C12_AxesSorted ==
    Transformed => AxisInOrder(pivot.rowKeys) /\ AxisInOrder(pivot.columnKeys)

\* the examples of the specification: 10, 2, 1 and Item2, Item10, Item1
C12_Witness ==
    /\ Transformed /\ Len(records) = 3
    /\ \/ /\ [i \in 1..3 |-> getValue(records[i], "row").s]
               = <<<<"1", "0">>, <<"2">>, <<"1">>>>
          /\ pivot.rowKeys = <<<<"1">>, <<"2">>, <<"1", "0">>>>
       \/ /\ [i \in 1..3 |-> getValue(records[i], "row").s]
               = <<<<"I", "t", "e", "m", "2">>, <<"I", "t", "e", "m", "1", "0">>,
                   <<"I", "t", "e", "m", "1">>>>
          /\ pivot.rowKeys = <<<<"I", "t", "e", "m", "1">>, <<"I", "t", "e", "m", "2">>,
                               <<"I", "t", "e", "m", "1", "0">>>>

----------------------------------------------------------------------------
(* C18 *)

\* C18: over the labels of an axis the smart comparator is a total order up
\* to ties: comparing two labels either way gives opposite signs, and no
\* three labels a, b, c have a before b, b before c and c before a.
C18_ComparatorIsTotalOrder ==
    Transformed =>
        \A i, j, k \in 1..Len(pivot.rowKeys) :
            LET a == pivot.rowKeys[i]
                b == pivot.rowKeys[j]
                c == pivot.rowKeys[k]
            IN  /\ smartSort(a, b) = -smartSort(b, a)
                /\ (smartSort(a, b) < 0 /\ smartSort(b, c) < 0) => smartSort(a, c) < 0
                /\ (smartSort(a, b) <= 0 /\ smartSort(b, c) <= 0) => smartSort(a, c) <= 0

----------------------------------------------------------------------------
(* C13 *)

----------------------------------------------------------------------------
(* C14 *)

\* the records with a value, and the grand total cell of the rendered table
Valued == {i \in 1..Len(records) : getValue(records[i], config.valueField) # Null}
GrandTotalCell == rendered.body[Len(rendered.body)][Len(rendered.header)]

\* C14: under AVERAGE with totals shown, the grand total cell shows the mean
\* of the values of all records that have one.
C14_GrandAverageIsMeanOfValues ==
    (rendered.kind = "table" /\ params.showTotals /\ config.aggregationType = "AVG") =>
        GrandTotalCell = formatValue(RDiv(SumOfSet(Valued), Cardinality(Valued)),
                                     columns[valueColumn].dataType, "AVG")

----------------------------------------------------------------------------
(* C15 *)

\* the control renders a table with row grouping
IsGroupedTable == IsTable /\ params.rowGroupField # "" /\ Len(matrix.groups) > 0

\* the table rows that are the header row of the group with a key
GroupHeaderRows(groupKey) ==
    {k \in 2..Len(Table.rows) :
        /\ Table.rows[k].className = "row-group-header"
        /\ Table.rows[k].cells[1].kind = "group"
        /\ Table.rows[k].cells[1].text = groupKey}

\* the table rows below row k that are member rows, up to the next row
\* that is none
MemberRowsBelow(k) ==
    {l \in (k + 1)..Len(Table.rows) :
        \A m \in (k + 1)..l : Table.rows[m].className = "row-group-child"}

\* C15: in every rendering of the grouped control, also in the one that
\* follows a toggle, every group has exactly one aggregate row; below it
\* stand the rows of all members of the group when the group's label is not
\* in the collapsed set, and none when it is.
C15_GroupRowsFollowCollapsedSet ==
    IsGroupedTable =>
        \A g \in 1..Len(matrix.groups) :
            LET group == matrix.groups[g]
                collapsed == \E c \in 1..Len(collapsedGroups) :
                                 collapsedGroups[c] = group.groupKey
            IN  /\ Cardinality(GroupHeaderRows(group.groupKey)) = 1
                /\ \A k \in GroupHeaderRows(group.groupKey) :
                      {Table.rows[l].cells[1].text : l \in MemberRowsBelow(k)}
                         = IF collapsed THEN {}
                           ELSE {matrix.rows[group.rows[i]].rowLabel :
                                    i \in 1..Len(group.rows)}


----------------------------------------------------------------------------
(* C16: the persisted collapsed groups *)

\* the groups named by the state handed to setControlState last
DecodedState == jsonParse(controlState.collapsedGroups)

\* C16: whatever groups were toggled, the text handed to the host last is
\* read back by JSON.parse as exactly the groups in the collapsed set, and
\* init of a fresh control with that state yields exactly that set
C16_StateRestoresCollapsedSet ==
    /\ controlState # Undefined =>
           /\ DecodedState.ok
           /\ Len(DecodedState.value) = Len(collapsedGroups)
           /\ {DecodedState.value[i] : i \in 1..Len(DecodedState.value)}
                  = {collapsedGroups[i] : i \in 1..Len(collapsedGroups)}
    /\ Len(initCollapsedGroups(controlState)) = Len(collapsedGroups)
    /\ {initCollapsedGroups(controlState)[i] :
           i \in 1..Len(initCollapsedGroups(controlState))}
           = {collapsedGroups[i] : i \in 1..Len(collapsedGroups)}

\* a fresh control has restored two collapsed groups, one of them with the
\* characters JSON escapes in its label
C16_Witness ==
    /\ controlState # Undefined
    /\ container = <<>>
    /\ Len(collapsedGroups) = 2
    /\ \E i \in 1..2 : collapsedGroups[i] = <<"\\", "\"">>


----------------------------------------------------------------------------
(* C17: a transformation succeeds as a whole or fails as a whole *)

\* the rendering is the one message of the error the engine threw
ShowsTheError ==
    \/ rendered = [kind |-> "error", error |-> pivot.error]
    \/ /\ pivot.error.kind = "DatasetNotConfigured"
       /\ rendered = Message("Dataset not configured")

\* the rendering is a table with a row for every row key and, in each of
\* them, the cell of every column key as the result holds it
ShowsTheWholeMatrix ==
    /\ rendered.kind = "table"
    /\ Len(rendered.header) = 1 + Len(pivot.columnKeys) + (IF params.showTotals THEN 1 ELSE 0)
    /\ Len(rendered.body) = Len(pivot.rowKeys) + (IF params.showTotals THEN 1 ELSE 0)
    /\ \A j \in 1..Len(pivot.columnKeys) :
           rendered.header[j + 1] = Str(pivot.columnKeys[j])
    /\ \A i \in 1..Len(pivot.rowKeys) :
           /\ rendered.body[i][1] = Str(pivot.rowKeys[i])
           /\ Len(rendered.body[i]) = Len(rendered.header)
           /\ \A j \in 1..Len(pivot.columnKeys) :
                  rendered.body[i][j + 1]
                      = renderCell(gridGet(pivot.gridData,
                                           cellKeyOf(pivot.rowKeys[i],
                                                     pivot.columnKeys[j])),
                                   columns[valueColumn].dataType,
                                   config.aggregationType)

\* C17: a call of the engine that throws returns no keys and no cells, throws
\* the same error whatever the records are, and the control shows the message
\* of that error and no table; a call that returns shows no error message
\* and, when the result has keys, the table of all its rows, columns and
\* cells
C17_SucceedsOrFailsAsAWhole ==
    Called =>
        /\ pivot.threw =>
              /\ DOMAIN pivot = {"threw", "error"}
              /\ \A r \in RecordUniverse :
                     transformDatasetToPivot([columns |-> columns, records |-> <<r>>],
                                             config) = pivot
              /\ ShowsTheError
        /\ ~pivot.threw =>
              /\ DOMAIN pivot = {"threw", "rowKeys", "columnKeys", "gridData"}
              /\ rendered.kind # "error"
              /\ IF pivot.rowKeys # <<>> THEN ShowsTheWholeMatrix
                 ELSE rendered.kind = "message"


----------------------------------------------------------------------------
(* C19 *)

\* the records of a row label, of a column label
RowRecords(r) == {i \in 1..Len(records) : rowKeyOf(records[i]) = r}
ColumnRecords(c) == {i \in 1..Len(records) : columnKeyOf(records[i]) = c}

\* the least and the greatest value of a non-empty set of records
MinOfSet(S) == CHOOSE v \in {ValueOf(i) : i \in S} : \A i \in S : ~RLess(ValueOf(i), v)
MaxOfSet(S) == CHOOSE v \in {ValueOf(i) : i \in S} : \A i \in S : ~RLess(v, ValueOf(i))

\* the aggregation applied directly to a set of records, as the table
\* shows it
SaidTotal(S) ==
    LET valued == S \cap Valued
        total == CASE config.aggregationType = "COUNT" -> Num(Cardinality(S))
                   [] config.aggregationType = "SUM" -> SumOfSet(valued)
                   [] config.aggregationType = "MIN" ->
                         IF valued = {} THEN Undefined ELSE MinOfSet(valued)
                   [] config.aggregationType = "MAX" ->
                         IF valued = {} THEN Undefined ELSE MaxOfSet(valued)
    IN  IF total = Undefined THEN Text(<<"-">>)
        ELSE formatValue(total, columns[valueColumn].dataType, config.aggregationType)

\* C19: under COUNT, SUM, MIN and MAX with totals shown, the total of every
\* row, the total of every column and the grand total show the aggregation
\* applied to all records of that row, of that column, of the record set:
\* their number under COUNT, the sum, the least, the greatest of their
\* values otherwise.
C19_TotalsAggregateTheRecords ==
    (/\ rendered.kind = "table" /\ params.showTotals
     /\ config.aggregationType \in {"COUNT", "SUM", "MIN", "MAX"}) =>
        /\ \A i \in 1..Len(pivot.rowKeys) :
              rendered.body[i][Len(rendered.header)] = SaidTotal(RowRecords(pivot.rowKeys[i]))
        /\ \A j \in 1..Len(pivot.columnKeys) :
              rendered.body[Len(rendered.body)][j + 1]
                  = SaidTotal(ColumnRecords(pivot.columnKeys[j]))
        /\ GrandTotalCell = SaidTotal(1..Len(records))


----------------------------------------------------------------------------
(* C20 *)

\* no cell of a row, of a column, of the table is present
RowIsEmpty(i) ==
    \A j \in 1..Len(pivot.columnKeys) :
        CellValue(pivot.rowKeys[i], pivot.columnKeys[j]) = Undefined
ColumnIsEmpty(j) ==
    \A i \in 1..Len(pivot.rowKeys) :
        CellValue(pivot.rowKeys[i], pivot.columnKeys[j]) = Undefined

\* what the claim has a total over no present cell show
SaidEmptyTotal ==
    IF config.aggregationType \in {"MIN", "MAX"} THEN Text(<<"-">>)
    ELSE formatValue(Num(0), columns[valueColumn].dataType, config.aggregationType)

----------------------------------------------------------------------------
(* C21 *)

\* the records that contribute under the aggregation type: every record
\* under COUNT, the records with a value otherwise
Contributes(i) ==
    config.aggregationType = "COUNT" \/ getValue(records[i], config.valueField) # Null

\* how often a label stands in a list of keys
Occurrences(keys, label) == Cardinality({k \in 1..Len(keys) : keys[k] = label})

\* C21: a label is a row key (a column key) exactly when a contributing
\* record has it as its row key (column key), and then it is a key once; a
\* row or column whose records all lack a value is there under COUNT and not
\* there under SUM, AVERAGE, MIN and MAX.
C21_AxisMembership ==
    Transformed =>
        /\ \A label \in {rowKeyOf(records[i]) : i \in 1..Len(records)}
                        \cup {pivot.rowKeys[k] : k \in 1..Len(pivot.rowKeys)} :
              Occurrences(pivot.rowKeys, label) =
                  IF \E i \in 1..Len(records) :
                         Contributes(i) /\ rowKeyOf(records[i]) = label
                  THEN 1 ELSE 0
        /\ \A label \in {columnKeyOf(records[i]) : i \in 1..Len(records)}
                        \cup {pivot.columnKeys[k] : k \in 1..Len(pivot.columnKeys)} :
              Occurrences(pivot.columnKeys, label) =
                  IF \E i \in 1..Len(records) :
                         Contributes(i) /\ columnKeyOf(records[i]) = label
                  THEN 1 ELSE 0

\* under SUM the only record of row "a" has no value and another row has
\* one: the result has a row, and "a" is none of its rows
C21_Witness ==
    /\ Transformed /\ config.aggregationType = "SUM"
    /\ Len(pivot.rowKeys) > 0
    /\ \E i \in 1..Len(records) :
           /\ getValue(records[i], config.valueField) = Null
           /\ \A k \in 1..Len(pivot.rowKeys) : pivot.rowKeys[k] # rowKeyOf(records[i])


----------------------------------------------------------------------------
(* C22 *)

\* processDataset has run with a row group field
IsGrouped == matrix # Undefined /\ params.rowGroupField # ""

\* the record that produced row n first
FirstRecordOf(n) ==
    CHOOSE i \in 1..Len(records) :
        /\ StringOf(getFieldValue(records[i], params.rowHeaderField)) = matrix.rows[n].rowKey
        /\ \A h \in 1..(i - 1) :
               StringOf(getFieldValue(records[h], params.rowHeaderField))
                   # matrix.rows[n].rowKey

\* the places of row n in the groups: the group and the position in it
PlacesOf(n) ==
    {<<g, k>> \in (1..Len(matrix.groups)) \X (1..Len(matrix.rows)) :
        k <= Len(matrix.groups[g].rows) /\ matrix.groups[g].rows[k] = n}

\* C22: with a row group field, every row made of the records is a member of
\* exactly one group, and that group is labelled by the group field value of
\* the record that produced the row first, whatever that value is.
C22_EveryRowInOneGroup ==
    IsGrouped =>
        \A n \in 1..Len(matrix.rows) :
            /\ Cardinality(PlacesOf(n)) = 1
            /\ \A p \in PlacesOf(n) :
                   matrix.groups[p[1]].groupKey
                       = StringOf(getFieldValue(records[FirstRecordOf(n)],
                                                params.rowGroupField))


----------------------------------------------------------------------------
(* C23 *)

\* the records of the cells that the member rows of a group have in a column
MemberRecords(group, columnKey) ==
    Flatten([k \in 1..Len(group.rows) |->
                IF MapHas(matrix.rows[group.rows[k]].cells, columnKey)
                THEN matrix.rows[group.rows[k]].cells[columnKey].records
                ELSE <<>>])

\* the rows of the result that are the aggregate row of a group
AggregateRowsOf(group) ==
    {n \in 1..Len(matrix.rows) :
        matrix.rows[n].isGroup /\ matrix.rows[n].rowKey = GROUP_ \o group.groupKey}

\* C23: for every group the result of processDataset has one aggregate row
\* keyed group_<label>; in every column where member rows have records, its
\* cell holds exactly those records and the value the cell calculation gives
\* for them, and in every other column it has no cell.
C23_GroupRowAggregatesMembers ==
    IsGrouped =>
        \A g \in 1..Len(matrix.groups) :
            /\ Cardinality(AggregateRowsOf(matrix.groups[g])) = 1
            /\ \A n \in AggregateRowsOf(matrix.groups[g]) :
                   \A j \in 1..Len(matrix.columns) :
                       LET said == MemberRecords(matrix.groups[g], matrix.columns[j])
                           cells == matrix.rows[n].cells
                       IN  IF said = <<>> THEN ~MapHas(cells, matrix.columns[j])
                           ELSE /\ MapHas(cells, matrix.columns[j])
                                /\ cells[matrix.columns[j]].records = said
                                /\ cells[matrix.columns[j]].value
                                       = calculateCellValue(
                                             said, params.cellContentField,
                                             params.cellCalculation.n,
                                             [columns |-> columns,
                                              records |-> records]).value


----------------------------------------------------------------------------
(* C24 *)

\* the table rows that are the header row of a group
AllGroupHeaderRows ==
    {k \in 2..Len(Table.rows) : Table.rows[k].className = "row-group-header"}

\* C24: the header rows of the groups stand in the table in the order of the
\* smart comparator on their labels: numbers ascending ("2" before "10"),
\* other labels in natural order without regard to case.
C24_GroupsInSmartOrder ==
    IsTable =>
        \A k, l \in AllGroupHeaderRows :
            k < l => smartSort(Table.rows[k].onclick.s, Table.rows[l].onclick.s) <= 0


----------------------------------------------------------------------------
(* C25 *)

\* every group header row in the table is marked expanded exactly when the
\* label of its group is not in the collapsed set
MarkedAsCollapsedSetSays ==
    IsTable =>
        \A k \in AllGroupHeaderRows :
            (Table.rows[k].cells[1].icon = "expanded")
                <=> ~(\E c \in 1..Len(collapsedGroups) :
                          collapsedGroups[c] = Table.rows[k].onclick.s)

\* C25: no call of updateView, whatever its context, changes the collapsed
\* set, and in every rendering a group is marked expanded exactly when its
\* label is not in the collapsed set.
C25_CollapsedSetPersists ==
    /\ [][(MatrixAddRecord \/ MatrixSetCalculation \/ MatrixUpdateView)
              => collapsedGroups' = collapsedGroups]_vars
    /\ []MarkedAsCollapsedSetSays


----------------------------------------------------------------------------
(* C26 *)

\* the context of the most recent call of updateView
LastContext == contextOf(columns, records, params)

\* what updateView renders from that context into an empty container
LastRendering ==
    matrixUpdateView(<<>>, LastContext,
                     IF isBuilt(LastContext) THEN matrixOf(LastContext) ELSE Undefined)

\* C26: after every call of updateView, those made by toggleGroup included,
\* the container holds one child, and it is the error message, the message
\* of no records or the table of the context of that call; nothing of an
\* earlier rendering is left.
C26_LastRenderingOnly ==
    container # <<>> =>
        /\ Len(container) = 1
        /\ container = LastRendering
        /\ container[1].content.kind \in {"matrix-error", "loading-message", "table"}

\* a table has been rendered over an earlier table, after a toggle
C26_Witness ==
    /\ IsTable /\ Len(records) > 1
    /\ collapsedGroups # <<>>


----------------------------------------------------------------------------
(* C27 *)

\* the cell keys of the intersections of the row keys and the column keys
KeysOfAxes ==
    {cellKeyOf(pivot.rowKeys[i], pivot.columnKeys[j]) :
        i \in 1..Len(pivot.rowKeys), j \in 1..Len(pivot.columnKeys)}

\* C27: in every result of the engine, under every aggregation type, each
\* present cell is the cell of a row key and a column key, every row key has
\* a present cell in its row and every column key has one in its column.
C27_AxesAndCellsAgree ==
    (Called /\ ~pivot.threw) =>
        /\ DOMAIN pivot.gridData \subseteq KeysOfAxes
        /\ \A i \in 1..Len(pivot.rowKeys) : \E j \in 1..Len(pivot.columnKeys) :
               CellValue(pivot.rowKeys[i], pivot.columnKeys[j]) # Undefined
        /\ \A j \in 1..Len(pivot.columnKeys) : \E i \in 1..Len(pivot.rowKeys) :
               CellValue(pivot.rowKeys[i], pivot.columnKeys[j]) # Undefined

\* a SUM result of two rows and two columns with a cell of value 0, an
\* absent cell and a record without a value
C27_Witness ==
    /\ Transformed /\ config.aggregationType = "SUM"
    /\ Len(pivot.rowKeys) = 2 /\ Len(pivot.columnKeys) = 2
    /\ DOMAIN pivot.gridData # KeysOfAxes
    /\ \E k \in DOMAIN pivot.gridData : pivot.gridData[k] = Num(0)
    /\ \E i \in 1..Len(records) : getValue(records[i], config.valueField) = Null


----------------------------------------------------------------------------
(* C28 *)

\* C28: two different intersections of a row label and a column label never
\* have the same cell key, so that the cell of an intersection is present
\* only if a contributing record lies in that intersection.
C28_CellKeyIsInjective ==
    Transformed =>
        /\ \A x, y \in Cells : cellKeyOf(x[1], x[2]) = cellKeyOf(y[1], y[2]) => x = y
        /\ \A x \in Cells :
               CellValue(x[1], x[2]) # Undefined =>
                   \E i \in CellRecords(x[1], x[2]) : Contributes(i)


----------------------------------------------------------------------------
(* C29 *)

\* the orders the records of the dataset can be put in
RecordOrders ==
    {p \in [1..Len(records) -> 1..Len(records)] :
        \A i, k \in 1..Len(records) : p[i] = p[k] => i = k}

\* C29: the result is the same for every order of the same records under the
\* same config: the same row keys and column keys in the same order and the
\* same cells, also when different labels compare equal.
C29_OrderOfRecordsIsIrrelevant ==
    Transformed =>
        \A p \in RecordOrders :
            transformDatasetToPivot(
                [columns |-> columns,
                 records |-> [i \in 1..Len(records) |-> records[p[i]]]],
                config) = pivot


----------------------------------------------------------------------------
(* C30 *)

\* the members of a Set
Members(set) == {set[i] : i \in 1..Len(set)}

\* the collapsed set after toggleGroup(groupKey) twice, and the state that
\* the second call hands to setControlState
ToggledTwice(groupKey) == toggled(toggled(collapsedGroups, groupKey), groupKey)
StateAfterTwice(groupKey) == [collapsedGroups |-> jsonStringify(ToggledTwice(groupKey))]

\* toggleGroup(groupKey) leaves the membership of every other label as it is
OthersKeep(groupKey) ==
    Members(toggled(collapsedGroups, groupKey)) \ {groupKey}
        = Members(collapsedGroups) \ {groupKey}

\* C30, as stated: in every reachable state, toggling a group twice gives
\* the collapsed set it had and the very state value that was persisted, and
\* one toggle changes the membership of no other label.
C30_ToggleTwiceRestoresState ==
    \A groupKey \in Clickable :
        /\ Members(ToggledTwice(groupKey)) = Members(collapsedGroups)
        /\ StateAfterTwice(groupKey) = controlState
        /\ OthersKeep(groupKey)

\* C30, amended: in every reachable state, toggling a group twice gives the
\* collapsed set it had, and the state persisted then is restored by init to
\* the same set as the state persisted before (its text may list the labels
\* in another order, and it is "[]" where no state had been persisted); one
\* toggle changes the membership of no other label.
C30_ToggleTwiceRestoresSet ==
    \A groupKey \in Clickable :
        /\ Members(ToggledTwice(groupKey)) = Members(collapsedGroups)
        /\ Members(initCollapsedGroups(StateAfterTwice(groupKey)))
               = Members(initCollapsedGroups(controlState))
        /\ OthersKeep(groupKey)

\* two groups are collapsed and the one collapsed first can be toggled:
\* toggling it twice moves it behind the other in the persisted text
C30_Witness ==
    /\ Len(collapsedGroups) = 2
    /\ controlState # Undefined
    /\ collapsedGroups[1] \in Clickable
    /\ StateAfterTwice(collapsedGroups[1]) # controlState

====
